---- MODULE Spec2Model ----
(***************************************************************************)
(* A model of dbman's generic table access layer: the two database         *)
(* libraries (the synchronous lib/db.ts and the promise-based sqlite3      *)
(* wrapper), the server actions and the API routes built on them.          *)
(*                                                                         *)
(* The module holds several specifications over one set of variables; each *)
(* specification drives one group of variables and leaves the others at    *)
(* their initial values:                                                   *)
(*   SpecConn   the life cycle of database handles inside one operation    *)
(*   SpecRow    the PUT and DELETE routes of one row, on a table            *)
(***************************************************************************)
EXTENDS Integers, Sequences, FiniteSets, TLC

VARIABLES
    \* ---- handle life cycle (SpecConn)
    op,        \* the operation being executed, or "none"
    pc,        \* the position inside the operation
    db,        \* the operation's `db` variable: index into handles, 0 = undefined
    handles,   \* every handle the operation created: [open, closes]
    stmtsDone, \* how many statements of the operation have completed
    pending,   \* the completion recorded by try/catch, before finally has run
    result,    \* what the caller observes: a returned value or a thrown error
    logged,    \* the errors written to console.error by cleanup code
    primary,   \* history: the error the operation's body failed with, or ""
    badClose,  \* history: close was called although no handle was obtained
    \* ---- the database file (SpecRow, SpecFetch)
    tableInfo, \* the engine's table_info rows of table t: [name, pk]; <<>> = no table
    rows,      \* the rows of table t in rowid order: functions from column to value
    files,     \* the names of the files in the server's database directory
    \* ---- one request to an API route or server action
    req,       \* the request being served, with what the handler has computed
    resp,      \* the response of the last request
    sqlLog,    \* the SQL statements the last request executed, in order
    calls      \* the access-layer functions the last request called, in order

connVars == <<op, pc, db, handles, stmtsDone, pending, result, logged,
              primary, badClose>>

tableVars == <<tableInfo, rows, files>>

reqVars == <<req, resp, sqlLog, calls>>

vars == <<op, pc, db, handles, stmtsDone, pending, result, logged,
          primary, badClose, tableInfo, rows, files, req, resp, sqlLog, calls>>

ConnFrame == UNCHANGED <<tableVars, reqVars>>

(***************************************************************************)
(* Bounds.                                                                 *)
(***************************************************************************)
MaxRows  == 2   \* rows in the table
MaxIdLen == 2   \* characters in a row identifier of a request path
MaxBody  == 2   \* keys in a JSON request body

(***************************************************************************)
(* Text. A string is a sequence of one-character strings, so that the      *)
(* sanitizers, which work character by character, can be modelled.         *)
(***************************************************************************)

\* The characters of the model that the class [a-zA-Z0-9_] contains.
WordChars ==
    {"a", "b", "c", "d", "e", "f", "g", "h", "i", "j", "k", "l", "m", "n", "o", "p",
     "q", "r", "s", "t", "u", "v", "w", "x", "y", "z",
     "A", "B", "C", "D", "E", "F", "G", "H", "I", "J", "K", "L", "M", "N", "O", "P",
     "Q", "R", "S", "T", "U", "V", "W", "X", "Y", "Z",
     "0", "1", "2", "3", "4", "5", "6", "7", "8", "9", "_"}

\* Mutant of sanitizeName: nothing is removed.
sanitizeName_Unchanged(name) == name

\* name.replace(/[^a-zA-Z0-9_]/g, '')
sanitizeName(name) == SelectSeq(name, LAMBDA ch : ch \in WordChars)

\* id.replace(/[\/\.\;\`\']/g, '')
sanitizeRowId(id) == SelectSeq(id, LAMBDA ch : ch \notin {"/", ".", ";", "`", "'"})

\* /^[a-zA-Z0-9_]+$/.test(s)
IsWord(s) == Len(s) > 0 /\ \A i \in 1..Len(s) : s[i] \in WordChars

\* s.replace(/"/g, '""')
RECURSIVE DoubleQuotes(_)
DoubleQuotes(s) ==
    IF s = <<>> THEN <<>>
    ELSE (IF Head(s) = "\"" THEN <<"\"", "\"">> ELSE <<Head(s)>>) \o DoubleQuotes(Tail(s))

\* `"${s.replace(/"/g, '""')}"`
QuoteIdent(s) == <<"\"">> \o DoubleQuotes(s) \o <<"\"">>

\* Whether every double quote of s is one of a pair of adjacent double quotes.
RECURSIVE QuotesDoubled(_)
QuotesDoubled(s) ==
    IF s = <<>> THEN TRUE
    ELSE IF Head(s) # "\"" THEN QuotesDoubled(Tail(s))
    ELSE Len(s) >= 2 /\ s[2] = "\"" /\ QuotesDoubled(Tail(Tail(s)))

\* A double-quoted SQL identifier whose internal quotes are doubled.
IsQuoted(s) ==
    /\ Len(s) >= 2
    /\ s[1] = "\""
    /\ s[Len(s)] = "\""
    /\ QuotesDoubled(SubSeq(s, 2, Len(s) - 1))

\* The strings of at most n characters over the alphabet.
RECURSIVE Strings(_, _)
Strings(alphabet, n) ==
    IF n = 0 THEN {<<>>}
    ELSE LET shorter == Strings(alphabet, n - 1)
         IN  shorter \cup {Append(s, ch) : s \in shorter, ch \in alphabet}

\* The position of the last "/" of s, or 0.
RECURSIVE LastSlash(_)
LastSlash(s) ==
    IF s = <<>> THEN 0
    ELSE IF s[Len(s)] = "/" THEN Len(s)
    ELSE LastSlash(SubSeq(s, 1, Len(s) - 1))

\* s without its trailing "/" characters.
RECURSIVE StripSlashes(_)
StripSlashes(s) ==
    IF s # <<>> /\ s[Len(s)] = "/" THEN StripSlashes(SubSeq(s, 1, Len(s) - 1)) ELSE s

\* path.basename(p): the last segment of p, trailing separators dropped.
Basename(p) ==
    LET q == StripSlashes(p)
    IN  SubSeq(q, LastSlash(q) + 1, Len(q))

\* JavaScript null, where a name is expected.
Null == <<"null">>

(***************************************************************************)
(* The database file: one table, t, with columns a and b.                  *)
(***************************************************************************)
\* A path is the sequence of its segments below the file-system root.
RECURSIVE SplitSegments(_, _, _)
SplitSegments(s, cur, acc) ==
    LET closed == IF cur = <<>> THEN acc ELSE Append(acc, cur)
    IN  IF s = <<>> THEN closed
        ELSE IF Head(s) = "/" THEN SplitSegments(Tail(s), <<>>, closed)
        ELSE SplitSegments(Tail(s), Append(cur, Head(s)), acc)

\* path normalisation: '.' is dropped and '..' drops the segment before it.
RECURSIVE Normalize(_, _)
Normalize(segs, acc) ==
    IF segs = <<>> THEN acc
    ELSE IF Head(segs) = <<".">> THEN Normalize(Tail(segs), acc)
    ELSE IF Head(segs) = <<".", ".">>
        THEN Normalize(Tail(segs), IF acc = <<>> THEN acc ELSE SubSeq(acc, 1, Len(acc) - 1))
    ELSE Normalize(Tail(segs), Append(acc, Head(segs)))

\* path.join(dir, name)
PathJoin(dir, name) == Normalize(dir \o SplitSegments(name, <<>>, <<>>), <<>>)

\* process.cwd(), path.join(process.cwd(), 'dbs') and path.join(process.cwd(), 'data')
Cwd       == << <<"a", "p", "p">> >>
DbsDir    == Append(Cwd, <<"d", "b", "s">>)
DbBaseDir == Append(Cwd, <<"d", "a", "t", "a">>)

\* Whether the path is one of the directories that exist.
IsDirectory(p) ==
    \E dir \in {DbsDir, DbBaseDir} : \E n \in 0..Len(dir) : p = SubSeq(dir, 1, n)

\* Whether the path is a direct child of the directory.
DirectChild(dir, p) == Len(p) = Len(dir) + 1 /\ SubSeq(p, 1, Len(dir)) = dir

\* Each database directory holds one file, d, at the start.
DbD    == <<"d">>
Files  == {Append(DbsDir, DbD), Append(DbBaseDir, DbD)}

TableT == <<"t">>
ColA   == <<"a">>
ColB   == <<"b">>
Cols   == {ColA, ColB}
Vals   == {<<"1">>, <<"2">>}
SqlNull == <<"NULL-value">>

\* The table_info rows the engine reports: pk is 0 for a column outside the
\* primary key and the 1-based position inside the key for a key column.
TableInfos ==
    { <<>>,
      << [name |-> ColA, pk |-> 0], [name |-> ColB, pk |-> 0] >>,
      << [name |-> ColA, pk |-> 1], [name |-> ColB, pk |-> 0] >>,
      << [name |-> ColA, pk |-> 0], [name |-> ColB, pk |-> 1] >>,
      << [name |-> ColA, pk |-> 1], [name |-> ColB, pk |-> 2] >>,
      << [name |-> ColA, pk |-> 2], [name |-> ColB, pk |-> 1] >> }

ColumnNames(info) == {info[i].name : i \in 1..Len(info)}
KeyColumns(info)  == {info[i].name : i \in {j \in 1..Len(info) : info[j].pk > 0}}

\* The engine's primary-key constraint: no two rows agree on every key column.
PkUnique(info, rs) ==
    \/ KeyColumns(info) = {}
    \/ \A i, j \in 1..Len(rs) :
          i # j => \E col \in KeyColumns(info) :
                      rs[i][col] # rs[j][col] \/ rs[i][col] = SqlNull

RowSeqs == UNION {[1..n -> [Cols -> Vals]] : n \in 0..MaxRows}

TableInit ==
    /\ tableInfo \in TableInfos
    /\ rows \in RowSeqs
    /\ tableInfo = <<>> => rows = <<>>
    /\ PkUnique(tableInfo, rows)
    /\ files = Files

\* The table the specifications that do not read it are given.
TableIdle ==
    /\ tableInfo = <<>>
    /\ rows = <<>>
    /\ files = Files

NoReq  == [kind |-> "none", phase |-> "none"]
NoResp == [status |-> 0, changes |-> 0, error |-> ""]

ReqIdle ==
    /\ req = NoReq
    /\ resp = NoResp
    /\ sqlLog = <<>>
    /\ calls = <<>>

(***************************************************************************)
(* Handle life cycle.                                                      *)
(***************************************************************************)

\* lib/db.ts: the synchronous functions on better-sqlite3.
LibOps == {"listTables", "getTableSchema", "fetchTableData",
           "insertRow", "updateRow", "deleteRow"}

\* The schema route: getTableSchema, then its own table-existence check.
RouteOps == {"schemaGET"}

\* Server actions whose finally block wraps closeDb in try/catch.
GuardedActions == {"connectToDatabaseAndListTables", "listTablesAction",
                   "createTableAction", "deleteTableAction"}

\* Row-level server actions: finally { if (db) await closeDb(db) }.
RowActions == {"getTableInfoAndDataAction", "insertRowAction",
               "updateRowAction", "deleteRowAction"}

Ops == LibOps \cup RouteOps \cup GuardedActions \cup RowActions

SyncOps == LibOps \cup RouteOps

\* How many statements the operation runs on its handle.
NumStmts(o) ==
    CASE o = "fetchTableData"            -> 2   \* count, then data
      [] o = "getTableInfoAndDataAction" -> 3   \* table_info, data, count
      [] OTHER                           -> 1

\* Whether the operation's try has a catch clause that turns an error into a
\* result object (lib/db.ts insertRow/updateRow/deleteRow and every action).
HasCatch(o) ==
    o \in {"insertRow", "updateRow", "deleteRow"} \cup GuardedActions \cup RowActions

\* Operations that check their arguments before the try block and return a
\* failure object (or, for the route, a 400/404 response) right away.
ValidatesFirst(o) ==
    o \in {"connectToDatabaseAndListTables", "createTableAction", "deleteTableAction",
           "updateRowAction", "insertRowAction", "deleteRowAction", "schemaGET"}

\* Actions that resolve the database path with getFullDbPath inside the try.
UsesGetFullDbPath(o) ==
    o \in (GuardedActions \cup RowActions) \ {"connectToDatabaseAndListTables"}

\* Messages of the errors the environment can raise.
ErrNotFound == "Database file not found"
ErrOpen     == "SQLITE_CANTOPEN: unable to open database file"
ErrPragma   == "file is not a database"
ErrClose    == "SQLITE_BUSY: unable to close"
ErrPath     == "Invalid database file name. Must not contain path separators."
ErrURI      == "URI malformed"
ErrInput    == "invalid input"
ErrNoTable  == "table not found"
StmtErrs    == {"SQLITE_ERROR: no such table", "SQLITE_CONSTRAINT: UNIQUE constraint failed"}

\* Completion records: a returned result object or a thrown error.
NoCompletion == [kind |-> "none", success |-> FALSE, error |-> ""]
Ret(s, e)    == [kind |-> "return", success |-> s, error |-> e]
Throw(e)     == [kind |-> "throw", success |-> FALSE, error |-> e]

\* err.message || '<default text>'
OrDefault(msg, dflt) == IF msg = "" THEN dflt ELSE msg

\* What the catch clause of an operation makes of an error with message e.
Caught(o, e) ==
    IF HasCatch(o) THEN Ret(FALSE, OrDefault(e, "Failed.")) ELSE Throw(e)

\* Mutant of CloseFailureOutcome: no try/catch around closeDb in any finally.
CloseFailureOutcome_Unguarded(o, pend) == Throw(ErrClose)

\* The completion of an operation whose closeDb(db) in finally rejected, given
\* the completion `pend` recorded by the try/catch before it.
CloseFailureOutcome(o, pend) ==
    IF o \in GuardedActions THEN pend ELSE Throw(ErrClose)

\* Whether finally calls close when the `db` variable holds d (0 = undefined).
CallsClose(o, d) == d # 0

OpenCount == Cardinality({i \in 1..Len(handles) : handles[i].open})

ConnInit ==
    /\ op = "none"
    /\ pc = "idle"
    /\ db = 0
    /\ handles = <<>>
    /\ stmtsDone = 0
    /\ pending = NoCompletion
    /\ result = NoCompletion
    /\ logged = {}
    /\ primary = ""
    /\ badClose = FALSE

\* The specifications that do not follow handles keep these variables here.
ConnIdle == ConnInit

\* The caller invokes an operation.
Start(o) ==
    /\ pc = "idle"
    /\ op' = o
    /\ pc' = IF o \in LibOps THEN "exists" ELSE "validate"
    /\ UNCHANGED <<db, handles, stmtsDone, pending, result, logged, primary, badClose>>
    /\ ConnFrame

Finish(r) ==
    /\ result' = r
    /\ pc' = "done"

\* Argument checks and path resolution that precede the connection.
Validate ==
    /\ pc = "validate"
    /\ \/ /\ pc' = "connect"
          /\ UNCHANGED <<pending, result, primary>>
       \/ \* a check before the try block fails: structured failure, no connection
          /\ ValidatesFirst(op)
          /\ Finish(Ret(FALSE, ErrInput))
          /\ UNCHANGED <<pending, primary>>
       \/ \* getFullDbPath throws inside the try: the catch clause answers
          /\ UsesGetFullDbPath(op)
          /\ \E e \in (IF op \in RowActions THEN {ErrPath, ErrURI} ELSE {ErrPath}) :
                /\ pending' = Caught(op, e)
                /\ primary' = e
          /\ pc' = "finally"
          /\ UNCHANGED result
       \/ \* decodeURIComponent(encodedTableName) before the try block throws
          /\ op \in RowActions
          /\ Finish(Throw(ErrURI))
          /\ UNCHANGED <<pending, primary>>
       \/ \* getFullDbPath throws URIError and the catch clause, which decodes the
          \* same text again for its log line, throws it once more
          /\ op \in GuardedActions \ {"connectToDatabaseAndListTables"}
          /\ pending' = Throw(ErrURI)
          /\ primary' = ErrURI
          /\ pc' = "finally"
          /\ UNCHANGED result
    /\ UNCHANGED <<op, db, handles, stmtsDone, logged, badClose>>
    /\ ConnFrame

\* lib/db.ts connectToDb: fs.existsSync(dbPath), before the try of the caller.
ExistsCheck ==
    /\ pc = "exists"
    /\ \/ /\ pc' = "connect"
          /\ UNCHANGED result
       \/ Finish(Throw(ErrNotFound))
    /\ UNCHANGED <<op, db, handles, stmtsDone, pending, logged, primary, badClose>>
    /\ ConnFrame

\* What a failure of connectToDb means for the operation: lib/db.ts calls it
\* before its try, the schema route inside its own try, the actions inside theirs.
ConnectFailure(o, e) ==
    CASE o \in LibOps   -> [next |-> "done", res |-> Throw(e), pend |-> NoCompletion]
      [] o \in RouteOps -> [next |-> "done", res |-> Ret(FALSE, e), pend |-> NoCompletion]
      [] OTHER          -> [next |-> "finally", res |-> NoCompletion, pend |-> Caught(o, e)]

\* new Database(path) / new sqlite3.Database(path, cb)
ConnectToDb ==
    /\ pc = "connect"
    /\ \/ /\ handles' = Append(handles, [open |-> TRUE, closes |-> 0])
          /\ IF op \in SyncOps
               THEN /\ pc' = "pragma"     \* `db` is assigned when connectToDb returns
                    /\ db' = db
               ELSE /\ pc' = "stmt"
                    /\ db' = Len(handles) + 1
          /\ UNCHANGED <<pending, result, primary>>
       \/ LET f == ConnectFailure(op, ErrOpen) IN
          /\ pc' = f.next
          /\ result' = f.res
          /\ pending' = f.pend
          /\ primary' = ErrOpen
          /\ UNCHANGED <<db, handles>>
    /\ UNCHANGED <<op, stmtsDone, logged, badClose>>
    /\ ConnFrame

\* lib/db.ts connectToDb: db.pragma('journal_mode = WAL'); return db
Pragma ==
    /\ pc = "pragma"
    /\ \/ /\ db' = Len(handles)
          /\ pc' = "stmt"
          /\ UNCHANGED <<result, primary>>
       \/ \* the pragma throws out of connectToDb: the handle is never returned
          LET f == ConnectFailure(op, ErrPragma) IN
          /\ pc' = f.next
          /\ result' = f.res
          /\ primary' = ErrPragma
          /\ UNCHANGED db
    /\ UNCHANGED <<op, handles, stmtsDone, pending, logged, badClose>>
    /\ ConnFrame

\* One statement on the open handle succeeds or fails.
RunStatement ==
    /\ pc = "stmt"
    /\ \/ /\ stmtsDone' = stmtsDone + 1
          /\ IF stmtsDone + 1 = NumStmts(op)
               THEN /\ pending' = Ret(TRUE, "")
                    /\ pc' = "finally"
               ELSE UNCHANGED <<pending, pc>>
          /\ UNCHANGED primary
       \/ \E e \in StmtErrs :
            /\ pending' = Caught(op, e)
            /\ primary' = e
            /\ pc' = "finally"
            /\ UNCHANGED stmtsDone
    /\ UNCHANGED <<op, db, handles, result, logged, badClose>>
    /\ ConnFrame

\* getTableInfoAndDataAction returns from inside the try after the schema was
\* read: the table has no columns, or the sort column is not in the schema.
EarlyReturn ==
    /\ pc = "stmt"
    /\ op = "getTableInfoAndDataAction"
    /\ stmtsDone = 1
    /\ pending' = Ret(FALSE, ErrInput)
    /\ pc' = "finally"
    /\ UNCHANGED <<op, db, handles, stmtsDone, result, logged, primary, badClose>>
    /\ ConnFrame

AfterFinally(o) == IF o \in RouteOps THEN "route" ELSE "done"

\* The finally block: db.close() (lib/db.ts), if (db) await closeDb(db) (actions).
CloseDb ==
    /\ pc = "finally"
    /\ pc' = AfterFinally(op)
    /\ IF ~CallsClose(op, db)
         THEN /\ result' = pending
              /\ UNCHANGED <<handles, logged, badClose>>
         ELSE IF db = 0
         THEN /\ badClose' = TRUE
              /\ result' = Throw("Cannot read properties of undefined")
              /\ UNCHANGED <<handles, logged>>
         ELSE \/ /\ handles' = [handles EXCEPT ![db] =
                                    [open |-> FALSE, closes |-> @.closes + 1]]
                 /\ result' = pending
                 /\ UNCHANGED <<logged, badClose>>
              \/ \* sqlite3's close callback reports an error
                 /\ op \notin SyncOps
                 /\ handles' = [handles EXCEPT ![db].closes = @ + 1]
                 /\ result' = CloseFailureOutcome(op, pending)
                 /\ logged' = IF op \in GuardedActions
                                 THEN logged \cup {ErrClose} ELSE logged
                 /\ UNCHANGED badClose
    /\ UNCHANGED <<op, db, stmtsDone, pending, primary>>
    /\ ConnFrame

\* Schema route, after getTableSchema: answer, or check that the table exists.
RouteAfterSchema ==
    /\ pc = "route"
    /\ IF result.kind = "throw"
         THEN /\ Finish(Ret(FALSE, result.error))              \* 500
              /\ UNCHANGED pending
         ELSE \/ /\ Finish(Ret(TRUE, ""))                      \* schema.length > 0
                 /\ UNCHANGED pending
              \/ /\ pc' = "chkOpen"                            \* schema.length = 0
                 /\ UNCHANGED <<result, pending>>
    /\ UNCHANGED <<op, db, handles, stmtsDone, logged, primary, badClose>>
    /\ ConnFrame

\* const db = require('better-sqlite3')(dbPath)
CheckOpen ==
    /\ pc = "chkOpen"
    /\ \/ /\ handles' = Append(handles, [open |-> TRUE, closes |-> 0])
          /\ db' = Len(handles) + 1
          /\ pc' = "chkStmt"
          /\ UNCHANGED <<result, primary>>
       \/ /\ Finish(Ret(FALSE, ErrOpen))                       \* 500
          /\ primary' = ErrOpen
          /\ UNCHANGED <<db, handles>>
    /\ UNCHANGED <<op, stmtsDone, pending, logged, badClose>>
    /\ ConnFrame

\* db.prepare("SELECT name FROM sqlite_master ...").get(safeTableName)
CheckStatement ==
    /\ pc = "chkStmt"
    /\ \/ /\ \E exists \in BOOLEAN :
                pending' = IF exists THEN Ret(TRUE, "") ELSE Ret(FALSE, ErrNoTable)
          /\ pc' = "chkClose"
          /\ UNCHANGED <<result, primary>>
       \/ \E e \in StmtErrs :                                   \* 500, from the outer catch
            /\ Finish(Ret(FALSE, e))
            /\ primary' = e
            /\ UNCHANGED pending
    /\ UNCHANGED <<op, db, handles, stmtsDone, logged, badClose>>
    /\ ConnFrame

\* db.close(), then the 404 or the 200 answer
CheckClose ==
    /\ pc = "chkClose"
    /\ handles' = [handles EXCEPT ![db] = [open |-> FALSE, closes |-> @.closes + 1]]
    /\ Finish(pending)
    /\ UNCHANGED <<op, db, stmtsDone, pending, logged, primary, badClose>>
    /\ ConnFrame

\* The caller has its answer; the next operation starts from scratch.
Return ==
    /\ pc = "done"
    /\ op' = "none"
    /\ pc' = "idle"
    /\ db' = 0
    /\ handles' = <<>>
    /\ stmtsDone' = 0
    /\ pending' = NoCompletion
    /\ result' = NoCompletion
    /\ logged' = {}
    /\ primary' = ""
    /\ badClose' = FALSE
    /\ ConnFrame

ConnNext ==
    \/ \E o \in Ops : Start(o)
    \/ Validate
    \/ ExistsCheck
    \/ ConnectToDb
    \/ Pragma
    \/ RunStatement
    \/ EarlyReturn
    \/ CloseDb
    \/ RouteAfterSchema
    \/ CheckOpen
    \/ CheckStatement
    \/ CheckClose
    \/ Return

ConnSpecInit == ConnInit /\ TableIdle /\ ReqIdle

SpecConn == ConnSpecInit /\ [][ConnNext]_vars

\* A close was called on handle i and reported an error.
CloseFailed == \E i \in 1..Len(handles) : handles[i].open /\ handles[i].closes > 0

\* C1: in every operation, on every exit path, each handle that was opened is
\* closed exactly once before the operation returns, at most one handle is open
\* at any time, and close is never called when the open failed.
C1_ScopedAcquisition ==
    /\ OpenCount <= 1
    /\ ~badClose
    /\ \A i \in 1..Len(handles) : handles[i].closes <= 1
    /\ pc = "done" => \A i \in 1..Len(handles) : handles[i].closes = 1

\* C2: in connectToDatabaseAndListTables, listTablesAction, createTableAction and
\* deleteTableAction, when the operation failed with error E and closing the
\* handle failed too, the result is success=false with E's message, and the
\* close failure is logged.
C2_CloseFailureKeepsPrimaryError ==
    (pc = "done" /\ op \in GuardedActions /\ primary # "" /\ CloseFailed)
        => /\ result = Ret(FALSE, primary)
           /\ ErrClose \in logged

C2_Witness ==
    /\ pc = "done"
    /\ op = "connectToDatabaseAndListTables"
    /\ primary \in StmtErrs
    /\ CloseFailed
    /\ result.kind = "return"

\* C3: every row-level action resolves to a result object with a success flag
\* (and a message on failure) and never rejects, whatever connect, the
\* statements and close do.
C3_RowActionsNeverReject ==
    (pc = "done" /\ op \in RowActions /\ (Len(handles) > 0 \/ primary = ErrOpen))
        => /\ result.kind = "return"
           /\ result.success \/ result.error # ""

(***************************************************************************)
(* The engine: what a statement does to table t.  A statement is a record  *)
(* of its kind, the identifier texts interpolated into it and its bound    *)
(* parameters.                                                             *)
(***************************************************************************)
\* whereOps[i] is the operator of the i-th WHERE condition ("= ?", "LIKE ?",
\* "IS NULL"); tail is "", "LIMIT ?" or "LIMIT ? OFFSET ?"; ran tells whether
\* the engine prepared the statement and started to execute it.
Stmt(kind, table, setCols, whereCols, orderBy, params) ==
    [kind |-> kind, table |-> table, setCols |-> setCols,
     whereCols |-> whereCols, whereOps |-> [i \in 1..Len(whereCols) |-> "= ?"],
     orderBy |-> orderBy, dir |-> "", tail |-> "", params |-> params, ran |-> FALSE]

\* Every identifier text interpolated into the statement.
Idents(st) == <<st.table>> \o st.setCols \o st.whereCols \o st.orderBy

\* "" inside a quoted identifier stands for one double quote.
RECURSIVE Undouble(_)
Undouble(s) ==
    IF s = <<>> THEN <<>>
    ELSE IF Head(s) = "\"" /\ Len(s) >= 2
         THEN <<"\"">> \o Undouble(Tail(Tail(s)))
         ELSE <<Head(s)>> \o Undouble(Tail(s))

\* The name an identifier text denotes.
ResolveIdent(text) ==
    IF IsQuoted(text) THEN Undouble(SubSeq(text, 2, Len(text) - 1)) ELSE text

\* Whether the engine's parser accepts the text as one identifier.
ParsesAsIdent(text) == IsWord(text) \/ IsQuoted(text)

EngineOk(changes, newRows) ==
    [ok |-> TRUE, changes |-> changes, rows |-> newRows, error |-> ""]
EngineError(rs, e) ==
    [ok |-> FALSE, changes |-> 0, rows |-> rs, error |-> e]

ErrSyntax   == "SQLITE_ERROR: syntax error"
ErrNoSuchTable  == "SQLITE_ERROR: no such table"
ErrNoSuchColumn == "SQLITE_ERROR: no such column"
ErrUnique   == "SQLITE_CONSTRAINT: UNIQUE constraint failed"
ErrRange    == "RangeError: Too few parameter values were provided"

\* The statement as logged once the engine has answered with r: a statement
\* the engine refused to prepare was not executed.
Logged(st, r) == [st EXCEPT !.ran = (r.ok \/ r.error = ErrUnique)]

\* The error the engine raises when it prepares the statement, or "".
PrepareError(info, st) ==
    IF \E i \in 1..Len(Idents(st)) : ~ParsesAsIdent(Idents(st)[i])
        THEN ErrSyntax
    ELSE IF info = <<>> \/ ResolveIdent(st.table) # TableT
        THEN ErrNoSuchTable
    ELSE IF \E i \in 2..Len(Idents(st)) :
                ResolveIdent(Idents(st)[i]) \notin ColumnNames(info)
        THEN ErrNoSuchColumn
    ELSE ""

\* Whether row r satisfies `col1 = ? AND col2 = ? ...` with the bound keys.
MatchesWhere(r, st, keys) ==
    \A i \in 1..Len(st.whereCols) : r[ResolveIdent(st.whereCols[i])] = keys[i]

\* UPDATE t SET c1 = ?, ... WHERE k1 = ? ...
ExecUpdate(info, rs, st) ==
    LET n      == Len(st.setCols)
        keys   == SubSeq(st.params, n + 1, Len(st.params))
        Set(r) == [col \in Cols |->
                     IF \E i \in 1..n : ResolveIdent(st.setCols[i]) = col
                     THEN st.params[CHOOSE i \in 1..n :
                              /\ ResolveIdent(st.setCols[i]) = col
                              /\ \A j \in 1..n :
                                    ResolveIdent(st.setCols[j]) = col => j <= i]
                     ELSE r[col]]
        new    == [i \in 1..Len(rs) |->
                     IF MatchesWhere(rs[i], st, keys) THEN Set(rs[i]) ELSE rs[i]]
        hit    == {i \in 1..Len(rs) : MatchesWhere(rs[i], st, keys)}
    IN  IF n = 0 \/ Len(st.whereCols) = 0 THEN EngineError(rs, ErrSyntax)
        ELSE IF PrepareError(info, st) # "" THEN EngineError(rs, PrepareError(info, st))
        ELSE IF ~PkUnique(info, new) THEN EngineError(rs, ErrUnique)
        ELSE EngineOk(Cardinality(hit), new)

\* DELETE FROM t WHERE k1 = ? ...
ExecDelete(info, rs, st) ==
    LET hit == {i \in 1..Len(rs) : MatchesWhere(rs[i], st, st.params)}
    IN  IF Len(st.whereCols) = 0 THEN EngineError(rs, ErrSyntax)
        ELSE IF PrepareError(info, st) # "" THEN EngineError(rs, PrepareError(info, st))
        ELSE EngineOk(Cardinality(hit),
                      SelectSeq(rs, LAMBDA r : ~MatchesWhere(r, st, st.params)))

(***************************************************************************)
(* lib/db.ts: schema and primary key.                                      *)
(***************************************************************************)

\* What PRAGMA table_info(name) yields on the file.
TableInfoOf(name) == IF name = TableT THEN tableInfo ELSE <<>>

\* Mutant of getTableSchema: pk is true for every column of the key.
getTableSchema_AnyPosition(info) ==
    [i \in 1..Len(info) |-> [name |-> info[i].name, pk |-> info[i].pk > 0]]

\* rows.map(row => ({ name: row.name, ..., pk: row.pk === 1, ... }))
getTableSchema(info) ==
    [i \in 1..Len(info) |-> [name |-> info[i].name, pk |-> info[i].pk = 1]]

getPrimaryKeyColumn(info) ==
    LET schema    == getTableSchema(info)
        pkColumns == SelectSeq(schema, LAMBDA col : col.pk)
    IN  IF Len(pkColumns) = 1 THEN pkColumns[1].name ELSE Null

\* A JavaScript object with string keys: its entries in insertion order.
ObjHas(obj, key) == \E i \in 1..Len(obj) : obj[i].k = key
ObjSet(obj, key, val) ==
    IF ObjHas(obj, key)
    THEN [i \in 1..Len(obj) |-> IF obj[i].k = key THEN [k |-> key, v |-> val] ELSE obj[i]]
    ELSE Append(obj, [k |-> key, v |-> val])
ObjKeys(obj)   == [i \in 1..Len(obj) |-> obj[i].k]
ObjValues(obj) == [i \in 1..Len(obj) |-> obj[i].v]

\* The objects of at most n entries with distinct keys.
RECURSIVE Objects(_, _, _)
Objects(keys, vals, n) ==
    IF n = 0 THEN {<<>>}
    ELSE LET shorter == Objects(keys, vals, n - 1)
         IN  shorter \cup
             {Append(o, [k |-> key, v |-> val]) :
                 o \in {x \in shorter : Len(x) = n - 1}, key \in keys, val \in vals}

DistinctKeys(obj) == \A i, j \in 1..Len(obj) : i # j => obj[i].k # obj[j].k

\* updateRow(dbPath, tableName, rowId, idColumn, data): the statement it prepares
updateRowStmt(tableName, rowId, idColumn, data) ==
    Stmt("UPDATE", tableName, ObjKeys(data), <<idColumn>>, <<>>,
         Append(ObjValues(data), rowId))

\* deleteRow(dbPath, tableName, rowId, idColumn): the statement it prepares
deleteRowStmt(tableName, rowId, idColumn) ==
    Stmt("DELETE", tableName, <<>>, <<idColumn>>, <<>>, <<rowId>>)

(***************************************************************************)
(* The row route: PUT and DELETE /api/db/[dbName]/[tableName]/data/[rowId] *)
(***************************************************************************)
DbNames   == {DbD, <<"x">>, <<".", ".", "/", "d">>}
TableNames == {TableT, <<"u">>, <<"t", ";">>, <<"t", " ", "x">>}
RowIds    == Strings({"1", "/", "."}, MaxIdLen) \ {<<>>}
BodyKeys  == {ColA, ColB, <<"a", ";">>}
Bodies    == {o \in Objects(BodyKeys, Vals, MaxBody) : DistinctKeys(o)}

\* fs.existsSync(path.join(dbsDir, dbName))
ExistsSync(dbName) ==
    LET p == PathJoin(DbsDir, dbName) IN p \in files \/ IsDirectory(p)

Resp(status, changes, error) == [status |-> status, changes |-> changes, error |-> error]

\* The response of the routes to a failed updateRow / deleteRow.
ErrorStatus(kind, e) ==
    CASE kind = "PUT" /\ e = ErrUnique -> 409
      [] e = ErrNoSuchTable            -> 404
      [] OTHER                          -> 500

\* PUT lines 27-59 and DELETE lines 122-150: the checks that precede the body.
\* The result is the response of a rejected request, or status 0 to go on.
RowPrecheck(rawDbName, rawTableName, rawRowId) ==
    LET dbName    == Basename(rawDbName)
        tableName == sanitizeName(rawTableName)
        rowId     == sanitizeRowId(rawRowId)
    IN  IF dbName # rawDbName THEN Resp(400, 0, "Invalid database name format.")
        ELSE IF tableName # rawTableName THEN Resp(400, 0, "Invalid table name format.")
        ELSE IF rowId # rawRowId /\ rowId = <<>>
            THEN Resp(400, 0, "Invalid row ID format after sanitization.")
        ELSE IF ~ExistsSync(dbName) THEN Resp(404, 0, "Database not found.")
        ELSE Resp(0, 0, "")

\* PUT lines 67-82: the keys sanitized, the primary-key column left out.
RECURSIVE PutSanitizedBody(_, _, _)
PutSanitizedBody(body, idColumn, acc) ==
    IF body = <<>> THEN acc
    ELSE LET key == sanitizeName(Head(body).k)
         IN  PutSanitizedBody(Tail(body), idColumn,
                 IF key = idColumn THEN acc ELSE ObjSet(acc, key, Head(body).v))

\* A request arrives; the handler runs up to and including getPrimaryKeyColumn.
RowResolve(kind, rawDbName, rawTableName, rawRowId) ==
    /\ req.phase = "none"
    /\ LET pre       == RowPrecheck(rawDbName, rawTableName, rawRowId)
           tableName == sanitizeName(rawTableName)
           idColumn  == getPrimaryKeyColumn(TableInfoOf(tableName))
           base      == [kind |-> kind, rawDbName |-> rawDbName,
                         rawTableName |-> rawTableName, rawRowId |-> rawRowId,
                         tableName |-> tableName, rowId |-> sanitizeRowId(rawRowId),
                         idColumn |-> Null, body |-> <<>>, phase |-> "rejected"]
       IN  IF pre.status # 0
           THEN /\ req' = base
                /\ resp' = pre
                /\ calls' = <<>>
                /\ sqlLog' = <<>>
           ELSE /\ calls' = <<"getPrimaryKeyColumn">>
                /\ sqlLog' = << [Stmt("PRAGMA", tableName, <<>>, <<>>, <<>>, <<>>)
                                   EXCEPT !.ran = TRUE] >>
                /\ IF idColumn = Null \/ idColumn = <<>>
                   THEN /\ req' = [base EXCEPT !.phase = "nokey"]
                        /\ resp' = Resp(400, 0, "Primary key not found or is composite.")
                   ELSE /\ req' = [base EXCEPT !.phase = "resolved", !.idColumn = idColumn]
                        /\ resp' = NoResp
    /\ UNCHANGED tableVars
    /\ UNCHANGED connVars

PutResolve ==
    \E d \in DbNames, t \in TableNames, id \in RowIds : RowResolve("PUT", d, t, id)

DeleteResolve ==
    \E d \in DbNames, t \in TableNames, id \in RowIds : RowResolve("DELETE", d, t, id)

\* The answer of the routes to the result of updateRow / deleteRow.
RowAnswer(kind, r) ==
    IF r.ok
    THEN IF r.changes = 0 THEN Resp(404, 0, "No row found.")
         ELSE Resp(200, r.changes, "")
    ELSE Resp(ErrorStatus(kind, r.error), 0, r.error)

\* PUT lines 61-115, the body being a JSON object.
PutExecute ==
    /\ req.kind = "PUT" /\ req.phase = "resolved"
    /\ \E body \in Bodies :
         LET sanitizedBody == PutSanitizedBody(body, req.idColumn, <<>>)
             st == updateRowStmt(req.tableName, req.rowId, req.idColumn, sanitizedBody)
             r  == ExecUpdate(TableInfoOf(req.tableName), rows, st)
         IN  /\ req' = [req EXCEPT !.phase = "done", !.body = body]
             /\ IF body = <<>>
                THEN /\ resp' = Resp(400, 0, "Request body cannot be empty for update.")
                     /\ UNCHANGED <<rows, sqlLog, calls>>
                ELSE IF sanitizedBody = <<>>
                THEN /\ resp' = Resp(400, 0, "No valid fields to update.")
                     /\ UNCHANGED <<rows, sqlLog, calls>>
                ELSE /\ calls' = Append(calls, "updateRow")
                     /\ sqlLog' = Append(sqlLog, Logged(st, r))
                     /\ rows' = r.rows
                     /\ resp' = RowAnswer("PUT", r)
    /\ UNCHANGED <<tableInfo, files>>
    /\ UNCHANGED connVars

\* PUT lines 108-113: request.json() throws on a body that is not JSON.
PutBadJson ==
    /\ req.kind = "PUT" /\ req.phase = "resolved"
    /\ req' = [req EXCEPT !.phase = "done"]
    /\ resp' = Resp(400, 0, "Invalid JSON format in request body.")
    /\ UNCHANGED <<rows, sqlLog, calls, tableInfo, files>>
    /\ UNCHANGED connVars

\* DELETE lines 152-171
DeleteExecute ==
    /\ req.kind = "DELETE" /\ req.phase = "resolved"
    /\ LET st == deleteRowStmt(req.tableName, req.rowId, req.idColumn)
           r  == ExecDelete(TableInfoOf(req.tableName), rows, st)
       IN  /\ req' = [req EXCEPT !.phase = "done"]
           /\ calls' = Append(calls, "deleteRow")
           /\ sqlLog' = Append(sqlLog, Logged(st, r))
           /\ rows' = r.rows
           /\ resp' = RowAnswer("DELETE", r)
    /\ UNCHANGED <<tableInfo, files>>
    /\ UNCHANGED connVars

\* The response has been sent: the handler's locals are gone.
Respond ==
    /\ req.phase \in {"rejected", "nokey", "done"}
    /\ req' = NoReq
    /\ resp' = NoResp
    /\ sqlLog' = <<>>
    /\ calls' = <<>>
    /\ UNCHANGED tableVars
    /\ UNCHANGED connVars

RowNext ==
    \/ PutResolve
    \/ PutExecute
    \/ PutBadJson
    \/ DeleteResolve
    \/ DeleteExecute
    \/ Respond

RowInit == ConnIdle /\ TableInit /\ ReqIdle

SpecRow == RowInit /\ [][RowNext]_vars

\* C4: getPrimaryKeyColumn returns the key column's name if and only if exactly
\* one column of the table is part of the primary key, and null for zero or
\* for two or more key columns.
C4_PrimaryKeyIffExactlyOne ==
    IF Cardinality(KeyColumns(tableInfo)) = 1
    THEN getPrimaryKeyColumn(tableInfo) \in KeyColumns(tableInfo)
    ELSE getPrimaryKeyColumn(tableInfo) = Null

\* C5: a PUT or DELETE by row identifier on a table with no primary key or a
\* composite primary key is rejected with status 400, and no UPDATE or DELETE
\* statement is executed.
C5_NoUsableKeyRejected ==
    (/\ req.kind \in {"PUT", "DELETE"}
     /\ req.phase \in {"nokey", "done"}
     /\ Cardinality(KeyColumns(TableInfoOf(req.tableName))) # 1)
        => /\ resp.status = 400
           /\ \A i \in 1..Len(sqlLog) :
                 sqlLog[i].kind \in {"UPDATE", "DELETE"} => ~sqlLog[i].ran
           /\ "updateRow" \notin {calls[i] : i \in 1..Len(calls)}
           /\ "deleteRow" \notin {calls[i] : i \in 1..Len(calls)}

(***************************************************************************)
(* The engine: SELECT.                                                     *)
(***************************************************************************)

\* text LIKE pattern: % matches any run of characters, _ any one character.
RECURSIVE Like(_, _)
Like(s, p) ==
    IF p = <<>> THEN s = <<>>
    ELSE IF Head(p) = "%" THEN Like(s, Tail(p)) \/ (s # <<>> /\ Like(Tail(s), p))
    ELSE s # <<>> /\ (Head(p) = "_" \/ Head(p) = Head(s)) /\ Like(Tail(s), Tail(p))

\* The number of ? placeholders of the WHERE clause and of the whole statement.
WherePlaceholders(st) ==
    Cardinality({i \in 1..Len(st.whereOps) : st.whereOps[i] # "IS NULL"})
Placeholders(st) ==
    WherePlaceholders(st) +
        (CASE st.tail = "LIMIT ? OFFSET ?" -> 2 [] st.tail = "LIMIT ?" -> 1 [] OTHER -> 0)

\* The position, among the bound parameters, of the i-th condition's value.
ParamIndex(st, i) == Cardinality({j \in 1..i : st.whereOps[j] # "IS NULL"})

\* Whether row r satisfies the WHERE clause of a SELECT.
SelectMatches(r, st) ==
    \A i \in 1..Len(st.whereCols) :
        LET v == r[ResolveIdent(st.whereCols[i])]
        IN  CASE st.whereOps[i] = "IS NULL" -> v = SqlNull
              [] st.whereOps[i] = "LIKE ?"  ->
                    v # SqlNull /\ Like(v, st.params[ParamIndex(st, i)])
              [] OTHER -> v # SqlNull /\ v = st.params[ParamIndex(st, i)]

\* The engine's ordering of values: NULL first, then the texts.
Rank(v) == CASE v = SqlNull -> 0 [] v = <<"1">> -> 1 [] OTHER -> 2

\* ORDER BY col dir; rows that compare equal stay in rowid order.
OrderBy(rs, col, dir) ==
    LET Before(j, i) ==
            \/ IF dir = "DESC" THEN Rank(rs[j][col]) > Rank(rs[i][col])
                               ELSE Rank(rs[j][col]) < Rank(rs[i][col])
            \/ Rank(rs[j][col]) = Rank(rs[i][col]) /\ j < i
        Position(i) == 1 + Cardinality({j \in 1..Len(rs) : Before(j, i)})
    IN  [p \in 1..Len(rs) |-> rs[CHOOSE i \in 1..Len(rs) : Position(i) = p]]

\* LIMIT limit OFFSET offset: a negative limit is no limit, a negative offset 0.
LimitOffset(rs, limit, offset) ==
    LET off  == IF offset < 0 THEN 0 ELSE offset
        rest == SubSeq(rs, off + 1, Len(rs))
    IN  IF limit < 0 \/ limit >= Len(rest) THEN rest ELSE SubSeq(rest, 1, limit)

\* SELECT * / SELECT COUNT(*) FROM t [WHERE ...] [ORDER BY ...] [LIMIT ? [OFFSET ?]]
\* The result's rows are the selected rows; COUNT(*) is their number.
ExecSelect(info, rs, st) ==
    LET n        == WherePlaceholders(st)
        matching == SelectSeq(rs, LAMBDA r : SelectMatches(r, st))
        ordered  == IF st.orderBy = <<>> THEN matching
                    ELSE OrderBy(matching, ResolveIdent(st.orderBy[1]), st.dir)
        page     == CASE st.tail = "LIMIT ? OFFSET ?" ->
                            LimitOffset(ordered, st.params[n + 1], st.params[n + 2])
                      [] st.tail = "LIMIT ?" -> LimitOffset(ordered, st.params[n + 1], 0)
                      [] OTHER -> ordered
    IN  IF PrepareError(info, st) # "" THEN EngineError(rs, PrepareError(info, st))
        ELSE IF Len(st.params) # Placeholders(st) THEN EngineError(rs, ErrRange)
        ELSE EngineOk(0, page)

(***************************************************************************)
(* lib/db.ts: fetchTableData.                                              *)
(***************************************************************************)
MaxFetchRows == 3   \* rows in the table that pages are fetched from
MaxPage      == 3   \* the largest page number asked for
MaxLimit     == 2   \* the largest page size asked for
MaxFilters   == 2   \* entries in a filter mapping

\* parseInt of a text that does not start with a number; falsy like 0.
NaN == -1000000

Truthy(n) == n # 0 /\ n # NaN

NullString == <<"N", "U", "L", "L">>

\* s.toUpperCase(), for the texts a sort order is given as.
ToUpperCase(s) ==
    CASE s = "desc" -> "DESC" [] s = "asc" -> "ASC"
      [] s = "text" -> "TEXT" [] s = "integer" -> "INTEGER"
      [] s = "text default 1" -> "TEXT DEFAULT 1" [] OTHER -> s

\* lines 112-118: the condition a filter value gives.
FilterOp(value) ==
    IF value = Null \/ value = NullString THEN "IS NULL"
    ELSE IF Len(value) > 0 /\ (value[1] = "%" \/ value[Len(value)] = "%") THEN "LIKE ?"
    ELSE "= ?"

\* Mutant of FilterParams: every value is bound.
FilterParams_AllValues(filters) == ObjValues(filters)

\* lines 122-127: the values bound to the conditions' placeholders.
FilterParams(filters) ==
    SelectSeq(ObjValues(filters), LAMBDA v : ~(v = Null \/ v = NullString))

\* Mutant of Offset: the page number is not shifted.
Offset_Unshifted(page, limit) == page * limit

\* line 143
Offset(page, limit) == (page - 1) * limit

Options(page, limit, sortBy, sortOrder, filters) ==
    [page |-> page, limit |-> limit, sortBy |-> sortBy, sortOrder |-> sortOrder,
     filters |-> filters]

FetchResult(ok, data, totalRows, error, log) ==
    [ok |-> ok, data |-> data, totalRows |-> totalRows, error |-> error, log |-> log]

\* lines 104-128: SELECT ... FROM tableName [WHERE ...] with its parameters
FilteredStmt(kind, tableName, filters) ==
    [Stmt(kind, tableName, <<>>, ObjKeys(filters), <<>>, FilterParams(filters))
        EXCEPT !.whereOps = [i \in 1..Len(filters) |-> FilterOp(filters[i].v)]]

\* lines 133-149: the data statement
DataStmt(tableName, options) ==
    LET base       == FilteredStmt("SELECT", tableName, options.filters)
        order      == IF ToUpperCase(options.sortOrder) = "DESC" THEN "DESC" ELSE "ASC"
        safeSortBy == sanitizeName(options.sortBy)
        sorted     == IF options.sortBy # <<>> /\ safeSortBy # <<>>
                      THEN [base EXCEPT !.orderBy = <<safeSortBy>>, !.dir = order]
                      ELSE base
    IN  IF Truthy(options.limit) /\ Truthy(options.page)
        THEN [sorted EXCEPT !.tail = "LIMIT ? OFFSET ?",
                            !.params = @ \o <<options.limit,
                                              Offset(options.page, options.limit)>>]
        ELSE IF Truthy(options.limit)
        THEN [sorted EXCEPT !.tail = "LIMIT ?", !.params = @ \o <<options.limit>>]
        ELSE sorted

\* fetchTableData(dbPath, tableName, options) on an existing file: the value
\* returned or the error thrown, and the statements handed to the engine.
fetchTableData(info, rs, tableName, options) ==
    LET countStmt == FilteredStmt("COUNT", tableName, options.filters)
        rc        == ExecSelect(info, rs, countStmt)
        dataStmt  == DataStmt(tableName, options)
        rd        == ExecSelect(info, rs, dataStmt)
    IN  IF ~rc.ok
        THEN FetchResult(FALSE, <<>>, 0, rc.error, << Logged(countStmt, rc) >>)
        ELSE IF ~rd.ok
        THEN FetchResult(FALSE, <<>>, 0, rd.error,
                         << Logged(countStmt, rc), Logged(dataStmt, rd) >>)
        ELSE FetchResult(TRUE, rd.rows, Len(rc.rows), "",
                         << Logged(countStmt, rc), Logged(dataStmt, rd) >>)

(***************************************************************************)
(* Fetching a page: fetchTableData called directly, the data GET route     *)
(* /api/db/[dbName]/[tableName]/data, and getTableInfoAndDataAction.       *)
(***************************************************************************)
MaxQueryFilters == 1   \* filter_ parameters in the query string of a request

DefaultLimit == 10     \* searchParams.get('limit') || '10'

NoPkInfo == << [name |-> ColA, pk |-> 0], [name |-> ColB, pk |-> 0] >>

\* The rows of the tables pages are fetched from: b may be NULL.
FetchRows == {r \in [Cols -> Vals \cup {SqlNull}] : r[ColA] # SqlNull /\ r[ColB] # <<"2">>}

FetchRowSeqs == UNION {[1..n -> FetchRows] : n \in 0..MaxFetchRows}

FetchTableInit ==
    /\ tableInfo \in {<<>>, NoPkInfo}
    /\ rows \in FetchRowSeqs
    /\ tableInfo = <<>> => rows = <<>>
    /\ files = Files

Pages       == 0..MaxPage
Limits      == 0..MaxLimit
SortColumns == {<<>>, ColA, ColB, <<"n">>, <<"a", ";">>}
SortOrders  == {"ASC", "DESC"}
\* The sort requests: a column text and an order; the order of a column that is
\* not a column of the table makes no difference.
Sorts       == {<<c, o>> \in SortColumns \X SortOrders : o = "DESC" => c \in Cols}
FilterVals  == {<<"1">>, <<"%", "1">>, Null, NullString}
\* The filter mappings: a equal to or like a text, b NULL or equal to a text.
FilterSets  == {o \in Objects(Cols, FilterVals, MaxFilters) :
                   /\ DistinctKeys(o)
                   /\ \A i \in 1..Len(o) :
                         IF o[i].k = ColA THEN o[i].v \in {<<"1">>, <<"%", "1">>}
                                          ELSE o[i].v # <<"%", "1">>}

PageResp(status, ok, data, totalRows, totalPages, error) ==
    [status |-> status, ok |-> ok, data |-> data, totalRows |-> totalRows,
     totalPages |-> totalPages, error |-> error]

ErrInvalidSort == "Invalid sort column"

\* fetchTableData line 102: connectToDb(dbPath)
FetchConnect ==
    /\ req.phase = "none"
    /\ \E dbName \in {DbD, <<"x">>} :
         LET base == [kind |-> "fetchTableData", phase |-> "connected",
                      dbName |-> dbName, tableName |-> TableT]
         IN  IF ExistsSync(dbName)
             THEN /\ req' = base
                  /\ resp' = NoResp
             ELSE /\ req' = [base EXCEPT !.phase = "done"]
                  /\ resp' = PageResp(0, FALSE, <<>>, 0, 0, ErrNotFound)
    /\ calls' = <<"fetchTableData">>
    /\ sqlLog' = <<>>
    /\ UNCHANGED tableVars
    /\ UNCHANGED connVars

\* fetchTableData lines 103-156 for the options of the caller
FetchQuery ==
    /\ req.kind = "fetchTableData" /\ req.phase = "connected"
    /\ \E page \in Pages, limit \in Limits, sort \in Sorts, filters \in FilterSets :
         LET options == Options(page, limit, sort[1], sort[2], filters)
         IN  \E r \in {fetchTableData(TableInfoOf(req.tableName), rows,
                                      req.tableName, options)} :
             /\ req' = [kind |-> "fetchTableData", phase |-> "done",
                        dbName |-> req.dbName, tableName |-> req.tableName,
                        options |-> options]
             /\ resp' = PageResp(0, r.ok, r.data, r.totalRows, 0, r.error)
             /\ sqlLog' = r.log
    /\ UNCHANGED calls
    /\ UNCHANGED tableVars
    /\ UNCHANGED connVars

\* ---- the data GET route

Digits == {"0", "1", "2"}
DigitValue(ch) == CASE ch = "0" -> 0 [] ch = "1" -> 1 [] OTHER -> 2

RECURSIVE ParseDigits(_, _)
ParseDigits(s, acc) ==
    IF s = <<>> \/ Head(s) \notin Digits THEN acc
    ELSE ParseDigits(Tail(s), 10 * acc + DigitValue(Head(s)))

\* parseInt(s, 10)
ParseInt(s) ==
    LET neg  == s # <<>> /\ Head(s) = "-"
        body == IF neg THEN Tail(s) ELSE s
    IN  IF body = <<>> \/ Head(body) \notin Digits THEN NaN
        ELSE IF neg THEN 0 - ParseDigits(body, 0) ELSE ParseDigits(body, 0)

\* Math.ceil(a / b) for a >= 0 as JSON shows it: NaN and Infinity are null.
CeilDiv(a, b) ==
    IF ~Truthy(b) THEN NaN
    ELSE IF b > 0 THEN (a + b - 1) \div b
    ELSE 0 - (a \div (0 - b))

\* The query parameters of the model; <<>> is a parameter that is absent.
PageParams  == {<<>>, <<"0">>, <<"2">>, <<"x">>, <<"-", "1">>}
LimitParams == {<<>>, <<"0">>, <<"1">>}
SortParams  == {<<>>, ColA, <<"n">>}
OrderParams == {"", "desc"}
QueryFilterKeys == {ColA, <<"a", ";">>, <<";">>}
QueryFilters == Objects(QueryFilterKeys, {<<"1">>, NullString}, MaxQueryFilters)

\* GET lines 41-56: the filter mapping built from the filter_ parameters
RECURSIVE GetFilters(_, _)
GetFilters(entries, acc) ==
    IF entries = <<>> THEN acc
    ELSE GetFilters(Tail(entries),
                    ObjSet(acc, sanitizeName(Head(entries).k), Head(entries).v))

\* GET lines 17-33: the checks on the path parameters
DataPrecheck(rawDbName, rawTableName) ==
    IF Basename(rawDbName) # rawDbName THEN Resp(400, 0, "Invalid database name format.")
    ELSE IF sanitizeName(rawTableName) # rawTableName
        THEN Resp(400, 0, "Invalid table name format.")
    ELSE IF ~ExistsSync(rawDbName) THEN Resp(404, 0, "Database not found.")
    ELSE Resp(0, 0, "")

DataGetResolve ==
    /\ req.phase = "none"
    /\ \E rawDbName \in DbNames, rawTableName \in TableNames :
         LET pre == DataPrecheck(rawDbName, rawTableName)
         IN  /\ req' = [kind |-> "dataGET",
                        phase |-> IF pre.status # 0 THEN "rejected" ELSE "resolved",
                        rawDbName |-> rawDbName, rawTableName |-> rawTableName,
                        tableName |-> sanitizeName(rawTableName)]
             /\ resp' = IF pre.status # 0 THEN pre ELSE NoResp
    /\ calls' = <<>>
    /\ sqlLog' = <<>>
    /\ UNCHANGED tableVars
    /\ UNCHANGED connVars

\* GET lines 35-82
DataGetFetch ==
    /\ req.kind = "dataGET" /\ req.phase = "resolved"
    /\ \E pageParam \in PageParams, limitParam \in LimitParams, sortBy \in SortParams,
          sortOrder \in OrderParams, query \in QueryFilters :
         LET page    == IF pageParam = <<>> THEN 1 ELSE ParseInt(pageParam)
             limit   == IF limitParam = <<>> THEN DefaultLimit ELSE ParseInt(limitParam)
             options == Options(page, limit, sortBy, sortOrder, GetFilters(query, <<>>))
         IN  \E r \in {fetchTableData(TableInfoOf(req.tableName), rows,
                                      req.tableName, options)} :
             /\ sortBy = <<>> => sortOrder = ""
             /\ req' = [kind |-> "dataGET", phase |-> "done",
                        rawDbName |-> req.rawDbName, rawTableName |-> req.rawTableName,
                        tableName |-> req.tableName, query |-> query,
                        options |-> options]
             /\ sqlLog' = r.log
             /\ resp' = IF r.ok
                        THEN PageResp(200, TRUE, r.data, r.totalRows,
                                      CeilDiv(r.totalRows, limit), "")
                        ELSE IF r.error = ErrNoSuchTable
                        THEN PageResp(404, FALSE, <<>>, 0, 0, "Table not found.")
                        ELSE PageResp(500, FALSE, <<>>, 0, 0, r.error)
    /\ calls' = <<"fetchTableData">>
    /\ UNCHANGED tableVars
    /\ UNCHANGED connVars

\* ---- getTableInfoAndDataAction

\* What PRAGMA table_info(<text>) answers: the text is part of the statement.
PragmaTableInfo(text) ==
    IF ~ParsesAsIdent(text) THEN EngineError(<<>>, ErrSyntax)
    ELSE EngineOk(0, TableInfoOf(ResolveIdent(text)))

\* getTableInfoAndDataAction lines 60-100, the connection being open
getTableInfoAndDataAction(tableName, page, pageSize, sortBy, sortDirection) ==
    LET pragma  == Stmt("PRAGMA", tableName, <<>>, <<>>, <<>>, <<>>)
        rs      == PragmaTableInfo(tableName)
        schema  == rs.rows
        safeTableName == QuoteIdent(tableName)
        direction == IF sortDirection = "DESC" THEN "DESC" ELSE "ASC"
        base    == Stmt("SELECT", safeTableName, <<>>, <<>>, <<>>,
                        <<pageSize, Offset(page, pageSize)>>)
        dataStmt == IF sortBy # <<>>
                    THEN [base EXCEPT !.orderBy = <<QuoteIdent(sortBy)>>,
                                      !.dir = direction, !.tail = "LIMIT ? OFFSET ?"]
                    ELSE [base EXCEPT !.tail = "LIMIT ? OFFSET ?"]
        rd      == ExecSelect(tableInfo, rows, dataStmt)
        countStmt == Stmt("COUNT", safeTableName, <<>>, <<>>, <<>>, <<>>)
        rc      == ExecSelect(tableInfo, rows, countStmt)
    IN  IF ~rs.ok
        THEN FetchResult(FALSE, <<>>, 0, rs.error, << Logged(pragma, rs) >>)
        ELSE IF schema = <<>>
        THEN FetchResult(FALSE, <<>>, 0, "Table not found or has no columns.",
                         << Logged(pragma, rs) >>)
        ELSE IF sortBy # <<>> /\ sortBy \notin ColumnNames(schema)
        THEN FetchResult(FALSE, <<>>, 0, ErrInvalidSort, << Logged(pragma, rs) >>)
        ELSE IF ~rd.ok
        THEN FetchResult(FALSE, <<>>, 0, rd.error,
                         << Logged(pragma, rs), Logged(dataStmt, rd) >>)
        ELSE IF ~rc.ok
        THEN FetchResult(FALSE, <<>>, 0, rc.error,
                         << Logged(pragma, rs), Logged(dataStmt, rd), Logged(countStmt, rc) >>)
        ELSE FetchResult(TRUE, rd.rows, Len(rc.rows), "",
                         << Logged(pragma, rs), Logged(dataStmt, rd), Logged(countStmt, rc) >>)

InfoAction ==
    /\ req.phase = "none"
    /\ \E tableName \in TableNames, page \in Pages, pageSize \in Limits, sort \in Sorts :
         \E r \in {getTableInfoAndDataAction(tableName, page, pageSize, sort[1], sort[2])} :
             /\ req' = [kind |-> "getTableInfoAndDataAction", phase |-> "done",
                        tableName |-> tableName,
                        options |-> Options(page, pageSize, sort[1], sort[2], <<>>)]
             /\ resp' = PageResp(0, r.ok, r.data, r.totalRows, 0, r.error)
             /\ sqlLog' = r.log
    /\ calls' = <<"connectToDb", "getTableSchema", "closeDb">>
    /\ UNCHANGED tableVars
    /\ UNCHANGED connVars

FetchNext ==
    \/ FetchConnect
    \/ FetchQuery
    \/ DataGetResolve
    \/ DataGetFetch
    \/ InfoAction
    \/ Respond

FetchInit == ConnIdle /\ FetchTableInit /\ ReqIdle

SpecFetch == FetchInit /\ [][FetchNext]_vars

\* A page fetch that got as far as building SQL has completed.
FetchDone(kinds) ==
    /\ req.kind \in kinds
    /\ req.phase = "done"
    /\ "options" \in DOMAIN req

\* The fetch asked for a sort column that the (existing) table does not have.
UnknownSortColumn ==
    /\ FetchDone({"dataGET", "getTableInfoAndDataAction"})
    /\ TableInfoOf(req.tableName) # <<>>
    /\ req.options.sortBy # <<>>
    /\ req.options.sortBy \notin ColumnNames(TableInfoOf(req.tableName))

\* C6: a page fetch whose sort column is not a column of the table's schema is
\* rejected with an invalid-sort-column error, and neither the count statement
\* nor the data statement is executed, at getTableInfoAndDataAction and at
\* fetchTableData called by the data GET route.
C6_UnknownSortColumnRejected ==
    UnknownSortColumn
        => /\ ~resp.ok
           /\ resp.error = ErrInvalidSort
           /\ \A i \in 1..Len(sqlLog) :
                 sqlLog[i].kind \in {"COUNT", "SELECT"} => ~sqlLog[i].ran

\* Whether row r satisfies every entry of the filter mapping.
RowMatchesFilters(r, filters) ==
    \A i \in 1..Len(filters) :
        LET v == r[filters[i].k]
            f == filters[i].v
        IN  IF f = Null \/ f = NullString THEN v = SqlNull
            ELSE IF f[1] = "%" \/ f[Len(f)] = "%" THEN v # SqlNull /\ Like(v, f)
            ELSE v = f

\* A completed fetchTableData for page p >= 1 and limit L >= 1 on the existing
\* table, filtering on columns and sorting by a column or not at all.
PageFetched ==
    /\ FetchDone({"fetchTableData", "dataGET"})
    /\ TableInfoOf(req.tableName) # <<>>
    /\ req.options.page >= 1
    /\ req.options.limit >= 1
    /\ req.options.sortBy \in ColumnNames(TableInfoOf(req.tableName)) \cup {<<>>}
    /\ \A i \in 1..Len(req.options.filters) :
          req.options.filters[i].k \in ColumnNames(TableInfoOf(req.tableName))

\* C7: for page p >= 1 and limit L >= 1 fetchTableData returns totalRows equal
\* to the number of rows matching all filters, and data equal to the slice
\* (p-1)*L+1 .. p*L of the matching rows in the requested order, that is
\* min(L, max(0, totalRows - (p-1)*L)) rows.
C7_PageIsSliceOfMatchingRows ==
    PageFetched
        => LET o        == req.options
               matching == SelectSeq(rows, LAMBDA r : RowMatchesFilters(r, o.filters))
               total    == Len(matching)
               desc     == ToUpperCase(o.sortOrder) = "DESC"
               ordered  == IF o.sortBy = <<>> THEN matching
                           ELSE OrderBy(matching, o.sortBy, IF desc THEN "DESC" ELSE "ASC")
               lo       == (o.page - 1) * o.limit
               rest     == IF total - lo > 0 THEN total - lo ELSE 0
               n        == IF o.limit < rest THEN o.limit ELSE rest
           IN  /\ resp.ok
               /\ resp.totalRows = total
               /\ Len(resp.data) = n
               /\ resp.data = SubSeq(ordered, lo + 1, lo + n)
               /\ o.sortBy # <<>> =>
                     \A i, j \in 1..n :
                        i < j => IF desc
                                 THEN Rank(resp.data[i][o.sortBy]) >= Rank(resp.data[j][o.sortBy])
                                 ELSE Rank(resp.data[i][o.sortBy]) <= Rank(resp.data[j][o.sortBy])

\* The second page of three matching rows, two to a page, filtered and sorted.
C7_Witness ==
    /\ PageFetched
    /\ req.kind = "fetchTableData"
    /\ req.options.filters # <<>>
    /\ req.options.sortBy = ColB
    /\ req.options.page = 2
    /\ req.options.limit = 2
    /\ resp.totalRows = 3
    /\ Len(resp.data) = 1

\* C8: fetchTableData builds the WHERE clause with one condition per filter
\* entry in iteration order: IS NULL (nothing bound) for null or "NULL",
\* LIKE ? for a string that starts or ends with %, = ? otherwise; the count and
\* the data statement bind exactly one value per placeholder in placeholder
\* order, the data statement's list being followed by limit and offset, and the
\* two statements have the same WHERE clause.
C8_WhereClauseAndParameters ==
    FetchDone({"fetchTableData", "dataGET"})
        => LET o       == req.options
               F       == o.filters
               Cond(v) == IF v = Null \/ v = NullString THEN "IS NULL"
                          ELSE IF Len(v) > 0 /\ (v[1] = "%" \/ v[Len(v)] = "%")
                          THEN "LIKE ?" ELSE "= ?"
               bound   == SelectSeq([i \in 1..Len(F) |-> F[i].v],
                                    LAMBDA v : Cond(v) # "IS NULL")
               paging  == IF Truthy(o.limit) /\ Truthy(o.page)
                          THEN <<o.limit, (o.page - 1) * o.limit>>
                          ELSE IF Truthy(o.limit) THEN <<o.limit>> ELSE <<>>
           IN  /\ Len(sqlLog) >= 1
               /\ sqlLog[1].kind = "COUNT"
               /\ \A i \in 1..Len(sqlLog) :
                     LET st == sqlLog[i]
                     IN  /\ st.whereCols = [j \in 1..Len(F) |-> F[j].k]
                         /\ st.whereOps = [j \in 1..Len(F) |-> Cond(F[j].v)]
                         /\ Len(st.params) = Placeholders(st)
                         /\ st.kind = "COUNT" => st.params = bound
                         /\ st.kind = "SELECT" =>
                               /\ Len(st.params) = Len(bound) + Len(paging)
                               /\ st.params = bound \o paging

\* Both statements were issued for a mapping with an IS NULL, and a LIKE entry.
C8_Witness ==
    /\ FetchDone({"fetchTableData"})
    /\ Len(sqlLog) = 2
    /\ sqlLog[2].whereOps = <<"IS NULL", "LIKE ?">>
    /\ sqlLog[2].tail = "LIMIT ? OFFSET ?"
    /\ sqlLog[2].ran

\* C9: in every SQL statement issued by an operation that an API route or a
\* server action reaches, each table or column name in the statement text
\* matches [A-Za-z0-9_]+ or is double-quoted with its double quotes doubled.
C9_IdentifiersWordOrQuoted ==
    \A i \in 1..Len(sqlLog) :
        \A j \in 1..Len(Idents(sqlLog[i])) :
            IsWord(Idents(sqlLog[i])[j]) \/ IsQuoted(Idents(sqlLog[i])[j])

(***************************************************************************)
(* The other API routes that take a table name: schema GET and data POST.  *)
(***************************************************************************)

\* INSERT INTO t (c1, ...) VALUES (?, ...): a column not named is NULL.
ExecInsert(info, rs, st) ==
    LET n   == Len(st.setCols)
        new == [col \in Cols |->
                  IF \E i \in 1..n : ResolveIdent(st.setCols[i]) = col
                  THEN st.params[CHOOSE i \in 1..n : ResolveIdent(st.setCols[i]) = col]
                  ELSE SqlNull]
    IN  IF n = 0 THEN EngineError(rs, ErrSyntax)
        ELSE IF PrepareError(info, st) # "" THEN EngineError(rs, PrepareError(info, st))
        ELSE IF ~PkUnique(info, Append(rs, new)) THEN EngineError(rs, ErrUnique)
        ELSE EngineOk(1, Append(rs, new))

\* insertRow(dbPath, tableName, data): the statement it prepares
insertRowStmt(tableName, data) ==
    Stmt("INSERT", tableName, ObjKeys(data), <<>>, <<>>, ObjValues(data))

\* POST lines 116-124: the body with its keys sanitized
RECURSIVE PostSanitizedBody(_, _)
PostSanitizedBody(body, acc) ==
    IF body = <<>> THEN acc
    ELSE PostSanitizedBody(Tail(body),
                           ObjSet(acc, sanitizeName(Head(body).k), Head(body).v))

\* POST lines 89-103; a request is taken only while the table has room.
DataPostResolve ==
    /\ req.phase = "none"
    /\ Len(rows) < MaxRows
    /\ \E rawDbName \in DbNames, rawTableName \in TableNames :
         LET pre == DataPrecheck(rawDbName, rawTableName)
         IN  /\ req' = [kind |-> "dataPOST",
                        phase |-> IF pre.status # 0 THEN "rejected" ELSE "resolved",
                        rawDbName |-> rawDbName, rawTableName |-> rawTableName,
                        tableName |-> sanitizeName(rawTableName)]
             /\ resp' = IF pre.status # 0 THEN pre ELSE NoResp
    /\ calls' = <<>>
    /\ sqlLog' = <<>>
    /\ UNCHANGED tableVars
    /\ UNCHANGED connVars

\* The answer of the POST route to the result of insertRow.
PostAnswer(r) ==
    IF r.ok THEN Resp(201, r.changes, "")
    ELSE IF r.error = ErrUnique THEN Resp(409, 0, r.error)
    ELSE IF r.error = ErrNoSuchTable THEN Resp(404, 0, r.error)
    ELSE Resp(500, 0, r.error)

\* POST lines 105-145, the body being a JSON object
DataPostInsert ==
    /\ req.kind = "dataPOST" /\ req.phase = "resolved"
    /\ \E body \in Bodies :
         LET sanitizedBody == PostSanitizedBody(body, <<>>)
             st == insertRowStmt(req.tableName, sanitizedBody)
         IN  \E r \in {ExecInsert(TableInfoOf(req.tableName), rows, st)} :
             /\ req' = [kind |-> "dataPOST", phase |-> "done",
                        rawDbName |-> req.rawDbName, rawTableName |-> req.rawTableName,
                        tableName |-> req.tableName, body |-> body]
             /\ IF body = <<>>
                THEN /\ resp' = Resp(400, 0, "Request body cannot be empty.")
                     /\ UNCHANGED <<rows, sqlLog, calls>>
                ELSE /\ calls' = <<"insertRow">>
                     /\ sqlLog' = << Logged(st, r) >>
                     /\ rows' = r.rows
                     /\ resp' = PostAnswer(r)
    /\ UNCHANGED <<tableInfo, files>>
    /\ UNCHANGED connVars

\* POST lines 146-153: request.json() throws on a body that is not JSON.
DataPostBadJson ==
    /\ req.kind = "dataPOST" /\ req.phase = "resolved"
    /\ req' = [req EXCEPT !.phase = "done"]
    /\ resp' = Resp(400, 0, "Invalid JSON format in request body.")
    /\ UNCHANGED <<rows, sqlLog, calls, tableInfo, files>>
    /\ UNCHANGED connVars

SqliteMaster == <<"s", "q", "l", "i", "t", "e", "_", "m", "a", "s", "t", "e", "r">>
NameColumn   == <<"n", "a", "m", "e">>

SchemaResp(status, schema, error) ==
    [status |-> status, changes |-> 0, error |-> error, schema |-> schema]

\* schema route, GET lines 12-62
SchemaGet ==
    /\ req.phase = "none"
    /\ \E dbName \in DbNames, tableName \in TableNames :
         LET safeDbName    == Basename(dbName)
             safeTableName == sanitizeName(tableName)
             schema        == getTableSchema(TableInfoOf(safeTableName))
             pragma        == [Stmt("PRAGMA", safeTableName, <<>>, <<>>, <<>>, <<>>)
                                 EXCEPT !.ran = TRUE]
             tableCheck    == [Stmt("SELECT", SqliteMaster, <<>>, <<NameColumn>>, <<>>,
                                    <<safeTableName>>) EXCEPT !.ran = TRUE]
             rejected      == \/ dbName = <<>> \/ tableName = <<>>
                              \/ safeDbName # dbName \/ safeTableName # tableName
         IN  /\ req' = [kind |-> "schemaGET",
                        phase |-> IF rejected THEN "rejected" ELSE "done",
                        rawDbName |-> dbName, rawTableName |-> tableName,
                        tableName |-> safeTableName]
             /\ IF dbName = <<>>
                THEN /\ resp' = SchemaResp(400, <<>>, "Database name is required.")
                     /\ calls' = <<>> /\ sqlLog' = <<>>
                ELSE IF tableName = <<>>
                THEN /\ resp' = SchemaResp(400, <<>>, "Table name is required.")
                     /\ calls' = <<>> /\ sqlLog' = <<>>
                ELSE IF safeDbName # dbName
                THEN /\ resp' = SchemaResp(400, <<>>, "Invalid database name format.")
                     /\ calls' = <<>> /\ sqlLog' = <<>>
                ELSE IF safeTableName # tableName
                THEN /\ resp' = SchemaResp(400, <<>>, "Invalid table name format.")
                     /\ calls' = <<>> /\ sqlLog' = <<>>
                ELSE IF ~ExistsSync(safeDbName)
                THEN /\ resp' = SchemaResp(404, <<>>, "Database not found.")
                     /\ calls' = <<>> /\ sqlLog' = <<>>
                ELSE IF schema = <<>>
                THEN /\ resp' = SchemaResp(404, <<>>, "Table not found.")
                     /\ calls' = <<"getTableSchema">>
                     /\ sqlLog' = <<pragma, tableCheck>>
                ELSE /\ resp' = SchemaResp(200, schema, "")
                     /\ calls' = <<"getTableSchema">>
                     /\ sqlLog' = <<pragma>>
    /\ UNCHANGED tableVars
    /\ UNCHANGED connVars

\* The API routes that take a table name.
TableRoutes == {"schemaGET", "dataGET", "dataPOST", "PUT", "DELETE"}

RoutesNext ==
    \/ SchemaGet
    \/ DataGetResolve
    \/ DataGetFetch
    \/ DataPostResolve
    \/ DataPostInsert
    \/ DataPostBadJson
    \/ PutResolve
    \/ PutExecute
    \/ PutBadJson
    \/ DeleteResolve
    \/ DeleteExecute
    \/ Respond

RoutesInit == ConnIdle /\ TableInit /\ ReqIdle

SpecRoutes == RoutesInit /\ [][RoutesNext]_vars

\* The same routes on a database file that holds no table: every request with
\* well-formed names is answered from the lookup of the table (404, or 400 for
\* the missing primary key), so the row routes never get to their statement.
NamesNext ==
    \/ SchemaGet
    \/ DataGetResolve
    \/ DataGetFetch
    \/ DataPostResolve
    \/ DataPostInsert
    \/ DataPostBadJson
    \/ PutResolve
    \/ DeleteResolve
    \/ Respond

NamesInit == ConnIdle /\ TableIdle /\ ReqIdle

SpecNames == NamesInit /\ [][NamesNext]_vars

\* C10: schema GET, data GET and POST, row PUT and DELETE answer a request
\* whose table name holds a character outside [A-Za-z0-9_] with status 400
\* before any access-layer function is called and any SQL is built.
C10_BadTableNameRejected ==
    (/\ req.kind \in TableRoutes
     /\ \E i \in 1..Len(req.rawTableName) : req.rawTableName[i] \notin WordChars)
        => /\ resp.status = 400
           /\ calls = <<>>
           /\ sqlLog = <<>>

\* The schema route has answered a request for table "t;" of an existing file.
C10_Witness ==
    /\ req.kind = "schemaGET"
    /\ req.rawDbName = DbD
    /\ req.rawTableName = <<"t", ";">>
    /\ resp.status = 400

\* Some key of the mapping holds a character outside [A-Za-z0-9_].
HasUnsafeKey(obj) ==
    \E i \in 1..Len(obj) : \E j \in 1..Len(obj[i].k) : obj[i].k[j] \notin WordChars

\* The keys the request carried: filter_ parameters, or the keys of the body.
RequestKeys ==
    IF req.kind = "dataGET" /\ "query" \in DOMAIN req THEN req.query
    ELSE IF req.kind \in {"dataPOST", "PUT"} /\ "body" \in DOMAIN req THEN req.body
    ELSE <<>>

\* C11: a data GET with a filter key, or a data POST or row PUT with a body key,
\* that holds a character outside [A-Za-z0-9_] is answered with an
\* invalid-identifier error (status 400) and no query, insert or update
\* statement is handed to the engine: the key is never rewritten and used.
C11_UnsafeKeyRejected ==
    (req.phase = "done" /\ HasUnsafeKey(RequestKeys))
        => /\ resp.status = 400
           /\ \A i \in 1..Len(sqlLog) : sqlLog[i].kind = "PRAGMA"

(***************************************************************************)
(* Rows written through lib/db.ts (insertRow, updateRow, deleteRow) and    *)
(* through the row-level server actions.                                   *)
(***************************************************************************)

\* The result object of a write that returned before it connected, the table
\* after it and the statements issued.
WriteResult(success, changes, error, newRows, log) ==
    [success |-> success, changes |-> changes, error |-> error,
     rows |-> newRows, log |-> log, opened |-> FALSE]

\* What the write makes of the engine's answer r to its one statement st, on
\* the connection it opened.
WriteOutcome(st, r) ==
    [WriteResult(r.ok, r.changes, r.error, r.rows, << Logged(st, r) >>)
        EXCEPT !.opened = TRUE]

\* lib/db.ts insertRow on an existing file
insertRow(info, rs, tableName, data) ==
    LET st == insertRowStmt(tableName, data)
    IN  WriteOutcome(st, ExecInsert(info, rs, st))

\* Mutant of updateRow: a statement that changed no row is reported as a failure.
updateRow_ZeroIsError(info, rs, tableName, rowId, idColumn, data) ==
    LET st == updateRowStmt(tableName, rowId, idColumn, data)
        r  == ExecUpdate(info, rs, st)
    IN  IF r.ok /\ r.changes = 0
        THEN WriteResult(FALSE, 0, "No row found.", rs, << Logged(st, r) >>)
        ELSE WriteOutcome(st, r)

\* lib/db.ts updateRow on an existing file
updateRow(info, rs, tableName, rowId, idColumn, data) ==
    LET st == updateRowStmt(tableName, rowId, idColumn, data)
    IN  WriteOutcome(st, ExecUpdate(info, rs, st))

\* Mutant of deleteRow: success is reported and no statement is run.
deleteRow_NoStatement(info, rs, tableName, rowId, idColumn) ==
    WriteResult(TRUE, 0, "", rs, <<>>)

\* lib/db.ts deleteRow on an existing file
deleteRow(info, rs, tableName, rowId, idColumn) ==
    LET st == deleteRowStmt(tableName, rowId, idColumn)
    IN  WriteOutcome(st, ExecDelete(info, rs, st))

\* [`"${key.replace(/"/g, '""')}"` for key in obj]
QuotedKeys(obj) == [i \in 1..Len(obj) |-> QuoteIdent(obj[i].k)]

\* insertRowAction lines 185-199, the connection being open
insertRowAction(info, rs, tableName, newRowData) ==
    LET st == Stmt("INSERT", QuoteIdent(tableName), QuotedKeys(newRowData), <<>>, <<>>,
                   ObjValues(newRowData))
    IN  IF newRowData = <<>>
        THEN WriteResult(FALSE, 0, "No data provided for new row.", rs, <<>>)
        ELSE WriteOutcome(st, ExecInsert(info, rs, st))

\* Mutant of updateRowAction: the connection is opened before the values and
\* the criteria are looked at.
updateRowAction_ConnectsFirst(info, rs, tableName, primaryKeyCriteria, updatedValues) ==
    IF updatedValues = <<>> \/ primaryKeyCriteria = <<>>
    THEN [WriteResult(FALSE, 0, "No values provided for update.", rs, <<>>)
             EXCEPT !.opened = TRUE]
    ELSE WriteOutcome(Stmt("UPDATE", QuoteIdent(tableName), QuotedKeys(updatedValues),
                           QuotedKeys(primaryKeyCriteria), <<>>,
                           ObjValues(updatedValues) \o ObjValues(primaryKeyCriteria)),
                      EngineError(rs, ErrSyntax))

\* updateRowAction lines 123-155: success does not depend on result.changes
updateRowAction(info, rs, tableName, primaryKeyCriteria, updatedValues) ==
    LET st == Stmt("UPDATE", QuoteIdent(tableName), QuotedKeys(updatedValues),
                   QuotedKeys(primaryKeyCriteria), <<>>,
                   ObjValues(updatedValues) \o ObjValues(primaryKeyCriteria))
    IN  IF updatedValues = <<>>
        THEN WriteResult(FALSE, 0, "No values provided for update.", rs, <<>>)
        ELSE IF primaryKeyCriteria = <<>>
        THEN WriteResult(FALSE, 0, "Primary key criteria missing for update.", rs, <<>>)
        ELSE WriteOutcome(st, ExecUpdate(info, rs, st))

\* deleteRowAction lines 224-244
deleteRowAction(info, rs, tableName, primaryKeyCriteria) ==
    LET st == Stmt("DELETE", QuoteIdent(tableName), <<>>,
                   QuotedKeys(primaryKeyCriteria), <<>>, ObjValues(primaryKeyCriteria))
    IN  IF primaryKeyCriteria = <<>>
        THEN WriteResult(FALSE, 0, "Primary key criteria missing for deletion.", rs, <<>>)
        ELSE WriteOutcome(st, ExecDelete(info, rs, st))

\* The value mappings the writes are called with: columns and values of the table.
WriteData == {o \in Objects(Cols, Vals, MaxBody) : DistinctKeys(o)}
\* The table names the server actions are called with.
ActionTables == {TableT, <<"u">>}

WriteResp(r) ==
    [status |-> 0, success |-> r.success, changes |-> r.changes, error |-> r.error,
     opened |-> r.opened]

\* The call has returned r: its arguments, the table before it and its answer.
Returned(call, r) ==
    /\ req' = [call EXCEPT !.phase = "done"]
    /\ resp' = WriteResp(r)
    /\ sqlLog' = r.log
    /\ rows' = r.rows
    /\ calls' = <<call.kind>>
    /\ UNCHANGED <<tableInfo, files>>
    /\ UNCHANGED connVars

WriteCall(kind, tableName, data) ==
    [kind |-> kind, phase |-> "none", tableName |-> tableName, data |-> data,
     before |-> rows]

\* lib/db.ts line 167, 192, 216: connectToDb(dbPath) throws on a missing file,
\* outside the try of the caller.
LibMissingFile ==
    /\ req.phase = "none"
    /\ \E kind \in {"insertRow", "updateRow", "deleteRow"}, dbName \in {<<"x">>} :
         /\ ~ExistsSync(dbName)
         /\ Returned(WriteCall(kind, TableT, <<>>),
                     WriteResult(FALSE, 0, ErrNotFound, rows, <<>>))

\* insertRow(dbPath, tableName, data) on the file d; the table has room.
LibInsert ==
    /\ req.phase = "none"
    /\ Len(rows) < MaxRows
    /\ \E data \in WriteData :
         Returned(WriteCall("insertRow", TableT, data),
                  insertRow(TableInfoOf(TableT), rows, TableT, data))

\* updateRow(dbPath, tableName, rowId, idColumn, data) on the file d
LibUpdate ==
    /\ req.phase = "none"
    /\ \E data \in WriteData, rowId \in Vals, idColumn \in Cols :
         Returned([WriteCall("updateRow", TableT, data) EXCEPT
                      !.data = [v |-> data, rowId |-> rowId, idColumn |-> idColumn]],
                  updateRow(TableInfoOf(TableT), rows, TableT, rowId, idColumn, data))

\* deleteRow(dbPath, tableName, rowId, idColumn) on the file d
LibDelete ==
    /\ req.phase = "none"
    /\ \E rowId \in Vals, idColumn \in Cols :
         Returned(WriteCall("deleteRow", TableT, [rowId |-> rowId, idColumn |-> idColumn]),
                  deleteRow(TableInfoOf(TableT), rows, TableT, rowId, idColumn))

\* insertRowAction(encodedDbPath, encodedTableName, newRowData) on the file d
InsertRowAction ==
    /\ req.phase = "none"
    /\ Len(rows) < MaxRows
    /\ \E tableName \in ActionTables, newRowData \in WriteData :
         Returned(WriteCall("insertRowAction", tableName, newRowData),
                  insertRowAction(TableInfoOf(tableName), rows, tableName, newRowData))

\* updateRowAction(encodedDbPath, encodedTableName, primaryKeyCriteria,
\* updatedValues) on the file d
UpdateRowAction ==
    /\ req.phase = "none"
    /\ \E tableName \in ActionTables, criteria \in WriteData, values \in WriteData :
         Returned([WriteCall("updateRowAction", tableName, values) EXCEPT
                      !.data = [v |-> values, criteria |-> criteria]],
                  updateRowAction(TableInfoOf(tableName), rows, tableName, criteria, values))

\* deleteRowAction(encodedDbPath, encodedTableName, primaryKeyCriteria) on d
DeleteRowAction ==
    /\ req.phase = "none"
    /\ \E tableName \in ActionTables, criteria \in WriteData :
         Returned(WriteCall("deleteRowAction", tableName, [criteria |-> criteria]),
                  deleteRowAction(TableInfoOf(tableName), rows, tableName, criteria))

DataNext ==
    \/ LibMissingFile
    \/ LibInsert
    \/ LibUpdate
    \/ LibDelete
    \/ InsertRowAction
    \/ UpdateRowAction
    \/ DeleteRowAction
    \/ Respond

DataInit == ConnIdle /\ TableInit /\ ReqIdle

SpecData == DataInit /\ [][DataNext]_vars

\* C12: an insert with an empty value mapping fails with an empty-payload error,
\* hands no statement to the engine and leaves the table unchanged, at the
\* lib/db insertRow and insertRowAction entry points.
C12_EmptyInsertIssuesNoSql ==
    ( /\ req.kind \in {"insertRow", "insertRowAction"}
      /\ req.phase = "done"
      /\ calls = <<req.kind>>
      /\ resp.error # ErrNotFound
      /\ req.data = <<>> )
        => /\ ~resp.success
           /\ resp.error \in {"No data provided for new row.", "Request body cannot be empty."}
           /\ sqlLog = <<>>
           /\ rows = req.before

\* The one column of the table's primary key, or Null.
SingleKeyColumn ==
    IF Cardinality(KeyColumns(tableInfo)) = 1
    THEN CHOOSE col \in KeyColumns(tableInfo) : TRUE
    ELSE Null

\* C13: when the table has a primary-key column, no UPDATE statement of
\* updateRowAction names it in its SET list, and the update leaves the key
\* value of every row as it was.
C13_KeyColumnOmittedFromSet ==
    ( /\ req.kind = "updateRowAction"
      /\ req.phase = "done"
      /\ calls = <<req.kind>>
      /\ req.tableName = TableT
      /\ SingleKeyColumn # Null )
        => /\ \A i \in 1..Len(sqlLog) : \A j \in 1..Len(sqlLog[i].setCols) :
                 ResolveIdent(sqlLog[i].setCols[j]) # SingleKeyColumn
           /\ Len(rows) = Len(req.before)
           /\ \A i \in 1..Len(rows) : rows[i][SingleKeyColumn] = req.before[i][SingleKeyColumn]

\* A write of one of the kinds has returned on an existing file and table t.
WriteDone(kinds) ==
    /\ req.kind \in kinds
    /\ req.phase = "done"
    /\ calls = <<req.kind>>
    /\ resp.error # ErrNotFound
    /\ req.tableName = TableT
    /\ tableInfo # <<>>

\* Whether a row of rs carries every value of the criteria mapping.
SomeRowMatches(rs, criteria) ==
    \E i \in 1..Len(rs) : \A j \in 1..Len(criteria) : rs[i][criteria[j].k] = criteria[j].v

\* The key criteria of the returned write, as a mapping.
CriteriaOf ==
    IF req.kind \in {"updateRow", "deleteRow"}
    THEN << [k |-> req.data.idColumn, v |-> req.data.rowId] >>
    ELSE req.data.criteria

\* The returned write is an update or delete by key, with values to set where it
\* is an update, and its key matches no row of the table.
ZeroMatch ==
    /\ WriteDone({"updateRow", "deleteRow", "updateRowAction", "deleteRowAction"})
    /\ CriteriaOf # <<>>
    /\ req.kind \in {"updateRow", "updateRowAction"} => req.data.v # <<>>
    /\ ~SomeRowMatches(req.before, CriteriaOf)

\* C14: updateRow and deleteRow with a key value that matches no row return
\* success with changes = 0 and leave the table as it was; updateRowAction and
\* deleteRowAction return success too.
C14_ZeroMatchIsSuccess ==
    ZeroMatch => /\ resp.success
                 /\ resp.changes = 0
                 /\ resp.error = ""
                 /\ rows = req.before

\* updateRow was called on a table with rows, none of which has the key value.
C14_Witness ==
    /\ ZeroMatch
    /\ req.kind = "updateRow"
    /\ req.before # <<>>
    /\ resp.success /\ resp.changes = 0

(***************************************************************************)
(* A caller of lib/db.ts that inserts a row, fetches the first page,       *)
(* deletes the row by its key and fetches again.                           *)
(***************************************************************************)

\* The columns a row is identified by: the key's, or any where there is no key.
IdColumns(info) == IF KeyColumns(info) = {} THEN ColumnNames(info) ELSE KeyColumns(info)

\* What the caller keeps of a fetch.
PageOf(r) == [ok |-> r.ok, data |-> r.data, totalRows |-> r.totalRows]

\* fetchTableData(dbPath, 't', { page: 1, limit }) with limit at least the row count
FirstPage ==
    {fetchTableData(tableInfo, rows, TableT, Options(1, limit, <<>>, "", <<>>)) :
        limit \in (IF Len(rows) = 0 THEN 1 ELSE Len(rows))..MaxRows}

\* insertRow(dbPath, 't', r) where r carries key k and no row of t does
TripInsert ==
    /\ req.phase = "none"
    /\ tableInfo # <<>>
    /\ Len(rows) < MaxRows
    /\ \E idColumn \in IdColumns(tableInfo), r \in WriteData :
         /\ ObjHas(r, idColumn)
         /\ \E k \in {r[i].v : i \in {j \in 1..Len(r) : r[j].k = idColumn}} :
              /\ ~SomeRowMatches(rows, << [k |-> idColumn, v |-> k] >>)
              /\ \E w \in {insertRow(tableInfo, rows, TableT, r)} :
                   /\ req' = [kind |-> "roundTrip", phase |-> "inserted",
                              idColumn |-> idColumn, k |-> k, r |-> r, before |-> rows,
                              first |-> PageOf(FetchResult(FALSE, <<>>, 0, "", <<>>)),
                              second |-> PageOf(FetchResult(FALSE, <<>>, 0, "", <<>>))]
                   /\ resp' = WriteResp(w)
                   /\ rows' = w.rows
                   /\ sqlLog' = w.log
    /\ calls' = <<"insertRow">>
    /\ UNCHANGED <<tableInfo, files>>
    /\ UNCHANGED connVars

\* fetchTableData after the insert
TripFetch ==
    /\ req.kind = "roundTrip" /\ req.phase = "inserted"
    /\ \E f \in FirstPage :
         /\ req' = [req EXCEPT !.phase = "fetched", !.first = PageOf(f)]
         /\ sqlLog' = sqlLog \o f.log
    /\ calls' = Append(calls, "fetchTableData")
    /\ UNCHANGED resp
    /\ UNCHANGED tableVars
    /\ UNCHANGED connVars

\* deleteRow(dbPath, 't', k, idColumn)
TripDelete ==
    /\ req.kind = "roundTrip" /\ req.phase = "fetched"
    /\ \E w \in {deleteRow(tableInfo, rows, TableT, req.k, req.idColumn)} :
         /\ req' = [req EXCEPT !.phase = "deleted"]
         /\ resp' = WriteResp(w)
         /\ rows' = w.rows
         /\ sqlLog' = sqlLog \o w.log
    /\ calls' = Append(calls, "deleteRow")
    /\ UNCHANGED <<tableInfo, files>>
    /\ UNCHANGED connVars

\* fetchTableData after the delete
TripRefetch ==
    /\ req.kind = "roundTrip" /\ req.phase = "deleted"
    /\ \E f \in FirstPage :
         /\ req' = [req EXCEPT !.phase = "done", !.second = PageOf(f)]
         /\ sqlLog' = sqlLog \o f.log
    /\ calls' = Append(calls, "fetchTableData")
    /\ UNCHANGED resp
    /\ UNCHANGED tableVars
    /\ UNCHANGED connVars

TripNext ==
    \/ TripInsert
    \/ TripFetch
    \/ TripDelete
    \/ TripRefetch
    \/ Respond

TripInit == ConnIdle /\ TableInit /\ ReqIdle

SpecTrip == TripInit /\ [][TripNext]_vars

\* Whether the fetched row carries every value of the mapping r.
RowEquals(row, r) == \A i \in 1..Len(r) : row[r[i].k] = r[i].v

\* C15: from a table with no row of key k, after inserting r with key k the first
\* page (limit at least the row count) holds a row equal to r and totalRows is
\* one more than at the start; after deleting by key k the first page holds no
\* row of key k and totalRows is what it was at the start.
C15_InsertFetchDeleteFetch ==
    req.kind = "roundTrip" =>
        /\ req.phase \in {"fetched", "deleted", "done"} =>
              /\ req.first.ok
              /\ req.first.totalRows = Len(req.before) + 1
              /\ \E i \in 1..Len(req.first.data) : RowEquals(req.first.data[i], req.r)
        /\ req.phase = "done" =>
              /\ req.second.ok
              /\ req.second.totalRows = Len(req.before)
              /\ \A i \in 1..Len(req.second.data) :
                    req.second.data[i][req.idColumn] # req.k

\* The whole trip has run on a table that had rows at the start.
C15_Witness ==
    /\ req.kind = "roundTrip"
    /\ req.phase = "done"
    /\ req.before # <<>>
    /\ req.second.data = req.before

\* Whether the text holds a '/' or two dots in a row.
HasSeparatorOrDotDot(s) ==
    \/ \E i \in 1..Len(s) : s[i] = "/"
    \/ \E i \in 1..(Len(s) - 1) : s[i] = "." /\ s[i + 1] = "."

\* C16: a PUT or DELETE whose row identifier holds '/' or '..' is answered with
\* an error, and no UPDATE or DELETE statement is handed to the engine for it.
C16_BadRowIdRejected ==
    (req.kind \in {"PUT", "DELETE"} /\ HasSeparatorOrDotDot(req.rawRowId))
        => /\ \A i \in 1..Len(sqlLog) : sqlLog[i].kind \notin {"UPDATE", "DELETE"}
           /\ req.phase \in {"rejected", "nokey", "done"} => resp.status >= 400

\* The value bound to the WHERE key of an UPDATE or DELETE: its last parameter.
BoundKey(st) == st.params[Len(st.params)]

\* C26: every UPDATE or DELETE the row route hands to the engine binds, as its
\* key, the row identifier exactly as it came in the request path; a request
\* whose identifier is not used as it came issues no such statement.
C26_BoundKeyIsRawId ==
    req.kind \in {"PUT", "DELETE"}
        => \A i \in 1..Len(sqlLog) :
              sqlLog[i].kind \in {"UPDATE", "DELETE"}
                  => BoundKey(sqlLog[i]) = req.rawRowId

(***************************************************************************)
(* Database names and files: upload storage, the tables route, and the     *)
(* server actions that connect to a file named by the user.                *)
(***************************************************************************)

\* decodeURIComponent: %2F is '/', %2E is '.', any other escape is malformed.
RECURSIVE DecodeURIComponent(_)
DecodeURIComponent(s) ==
    IF s = <<>> THEN [ok |-> TRUE, text |-> <<>>]
    ELSE IF Head(s) # "%"
        THEN LET rest == DecodeURIComponent(Tail(s))
             IN  [ok |-> rest.ok, text |-> <<Head(s)>> \o rest.text]
    ELSE IF Len(s) >= 3 /\ SubSeq(s, 2, 3) \in {<<"2", "F">>, <<"2", "E">>}
        THEN LET rest == DecodeURIComponent(SubSeq(s, 4, Len(s)))
             IN  [ok |-> rest.ok,
                  text |-> <<IF s[3] = "F" THEN "/" ELSE ".">> \o rest.text]
    ELSE [ok |-> FALSE, text |-> <<>>]

Resolved(ok, path, error) == [ok |-> ok, path |-> path, error |-> error]

\* getFullDbPath(encodedDbPath): the path, or the error thrown
getFullDbPath(encodedDbPath) ==
    LET dbFileName == DecodeURIComponent(encodedDbPath)
    IN  IF ~dbFileName.ok THEN Resolved(FALSE, <<>>, ErrURI)
        ELSE IF HasSeparatorOrDotDot(dbFileName.text) THEN Resolved(FALSE, <<>>, ErrPath)
        ELSE Resolved(TRUE, PathJoin(DbBaseDir, dbFileName.text), "")

\* new sqlite3.Database(dbFilePath, cb): a file that is missing is created.
ConnectAsync(present, dbFilePath) ==
    IF dbFilePath \in present THEN [ok |-> TRUE, files |-> present]
    ELSE IF IsDirectory(dbFilePath) \/ ~IsDirectory(SubSeq(dbFilePath, 1, Len(dbFilePath) - 1))
        THEN [ok |-> FALSE, files |-> present]
    ELSE [ok |-> TRUE, files |-> present \cup {dbFilePath}]

\* SELECT name FROM sqlite_master ...: the files of the start hold table t.
TablesOf(dbFilePath) ==
    IF dbFilePath \in Files /\ tableInfo # <<>> THEN <<TableT>> ELSE <<>>

\* path.extname(p)
Extname(p) ==
    LET base == Basename(p)
        dots == {i \in 1..Len(base) : base[i] = "."}
        last == IF dots = {} THEN 0 ELSE CHOOSE i \in dots : \A j \in dots : j <= i
    IN  IF last <= 1 \/ base = <<".", ".">> THEN <<>> ELSE SubSeq(base, last, Len(base))

\* s.toLowerCase(), for the letters of the file names
ToLowerCase(s) ==
    [i \in 1..Len(s) |-> CASE s[i] = "D" -> "d" [] s[i] = "B" -> "b" [] s[i] = "E" -> "e"
                           [] OTHER -> s[i]]

AllowedExtensions ==
    { <<".", "d", "b">>, <<".", "s", "q", "l", "i", "t", "e">>,
      <<".", "s", "q", "l", "i", "t", "e", "3">> }

\* The file names of uploads, and the database names of requests and calls.
UploadNames  == { <<"e", ".", "d", "b">>, <<"f", ".", "D", "B">>, <<"e">>,
                  <<".", ".", "/", "e", ".", "d", "b">> }
RouteDbNames == { DbD, <<"x">>, <<"e", ".", "d", "b">>, <<".", ".">>, <<".", ".", "/", "d">> }
EncodedNames == { DbD, <<"x">>, <<"y">>, <<".", ".">>, <<"%", "2", "F", "x">>,
                  <<"%", "2", "E", "%", "2", "E">>, <<"%", "x">> }

FileResp(status, ok, error, tables) ==
    [status |-> status, ok |-> ok, error |-> error, tables |-> tables]

\* The call has ended: the name it was given, the path it handed to connect or
\* to the file write (opened, wrote), and the files before it.
FileCall(kind, name, path, opened, wrote) ==
    [kind |-> kind, phase |-> "done", name |-> name, path |-> path,
     opened |-> opened, wrote |-> wrote, before |-> files]

\* upload route POST with a file of the name; storeUploadedDbFile
UploadPost ==
    /\ req.phase = "none"
    /\ \E name \in UploadNames :
         LET filePath == PathJoin(DbsDir, name)
         IN  IF ToLowerCase(Extname(name)) \notin AllowedExtensions
             THEN /\ req' = FileCall("upload", name, <<>>, FALSE, FALSE)
                  /\ resp' = FileResp(400, FALSE, "Invalid file type.", <<>>)
                  /\ files' = files
             ELSE IF IsDirectory(filePath)
                     \/ ~IsDirectory(SubSeq(filePath, 1, Len(filePath) - 1))
             THEN /\ req' = FileCall("upload", name, filePath, FALSE, TRUE)
                  /\ resp' = FileResp(500, FALSE, "Upload failed", <<>>)
                  /\ files' = files
             ELSE /\ req' = FileCall("upload", name, filePath, FALSE, TRUE)
                  /\ resp' = FileResp(200, TRUE, "", <<>>)
                  /\ files' = files \cup {filePath}
    /\ calls' = <<"storeUploadedDbFile">>
    /\ UNCHANGED <<tableInfo, rows, sqlLog>>
    /\ UNCHANGED connVars

\* tables route GET
TablesGet ==
    /\ req.phase = "none"
    /\ \E dbName \in RouteDbNames :
         LET safeDbName == Basename(dbName)
             dbPath     == PathJoin(DbsDir, safeDbName)
         IN  IF safeDbName # dbName
             THEN /\ req' = FileCall("tablesGET", dbName, <<>>, FALSE, FALSE)
                  /\ resp' = FileResp(400, FALSE, "Invalid database name format.", <<>>)
             ELSE IF ~ExistsSync(safeDbName)
             THEN /\ req' = FileCall("tablesGET", dbName, dbPath, FALSE, FALSE)
                  /\ resp' = FileResp(404, FALSE, ErrNotFound, <<>>)
             ELSE IF IsDirectory(dbPath)
             THEN /\ req' = FileCall("tablesGET", dbName, dbPath, TRUE, FALSE)
                  /\ resp' = FileResp(500, FALSE, ErrOpen, <<>>)
             ELSE /\ req' = FileCall("tablesGET", dbName, dbPath, TRUE, FALSE)
                  /\ resp' = FileResp(200, TRUE, "", TablesOf(dbPath))
    /\ calls' = <<"listTables">>
    /\ UNCHANGED <<tableInfo, rows, files, sqlLog>>
    /\ UNCHANGED connVars

\* The server action connects to the resolved path and lists the tables.
ConnectAndListTables(kind, name, resolved) ==
    IF ~resolved.ok
    THEN /\ req' = FileCall(kind, name, <<>>, FALSE, FALSE)
         /\ resp' = FileResp(0, FALSE, resolved.error, <<>>)
         /\ files' = files
    ELSE \E c \in {ConnectAsync(files, resolved.path)} :
         /\ req' = FileCall(kind, name, resolved.path, TRUE, FALSE)
         /\ resp' = IF c.ok THEN FileResp(0, TRUE, "", TablesOf(resolved.path))
                            ELSE FileResp(0, FALSE, ErrOpen, <<>>)
         /\ files' = c.files

\* connectToDatabaseAndListTables(dbFileName): the name is taken as it is given
ConnectToDatabaseAndListTables ==
    /\ req.phase = "none"
    /\ \E dbFileName \in RouteDbNames \cup {<<>>} :
         ConnectAndListTables("connectToDatabaseAndListTables", dbFileName,
             IF dbFileName = <<>>
             THEN Resolved(FALSE, <<>>, "Database file name cannot be empty.")
             ELSE IF HasSeparatorOrDotDot(dbFileName) THEN Resolved(FALSE, <<>>, ErrPath)
             ELSE Resolved(TRUE, PathJoin(DbBaseDir, dbFileName), ""))
    /\ calls' = <<"connectToDb", "listTables", "closeDb">>
    /\ UNCHANGED <<tableInfo, rows, sqlLog>>
    /\ UNCHANGED connVars

\* listTablesAction(encodedDbPath)
ListTablesAction ==
    /\ req.phase = "none"
    /\ \E encodedDbPath \in EncodedNames :
         ConnectAndListTables("listTablesAction", DecodeURIComponent(encodedDbPath).text,
                              getFullDbPath(encodedDbPath))
    /\ calls' = <<"connectToDb", "listTables", "closeDb">>
    /\ UNCHANGED <<tableInfo, rows, sqlLog>>
    /\ UNCHANGED connVars

\* getTableInfoAndDataAction(encodedDbPath, 't', 1, 1): describe t and fetch a page.
\* A file that was not there at the start holds no table: the PRAGMA on it
\* answers as it does for a table that does not exist.
BrowseTableAction ==
    /\ req.phase = "none"
    /\ \E encodedDbPath \in EncodedNames :
         LET resolved == getFullDbPath(encodedDbPath)
             name     == DecodeURIComponent(encodedDbPath).text
             kind     == "getTableInfoAndDataAction"
         IN  IF ~resolved.ok
             THEN /\ req' = FileCall(kind, name, <<>>, FALSE, FALSE)
                  /\ resp' = FileResp(0, FALSE, resolved.error, <<>>)
                  /\ files' = files
                  /\ sqlLog' = <<>>
             ELSE \E c \in {ConnectAsync(files, resolved.path)} :
                  \E r \in {IF resolved.path \in Files
                            THEN getTableInfoAndDataAction(TableT, 1, 1, <<>>, "ASC")
                            ELSE getTableInfoAndDataAction(<<"u">>, 1, 1, <<>>, "ASC")} :
                    /\ req' = FileCall(kind, name, resolved.path, TRUE, FALSE)
                    /\ resp' = IF c.ok THEN FileResp(0, r.ok, r.error, <<>>)
                                       ELSE FileResp(0, FALSE, ErrOpen, <<>>)
                    /\ sqlLog' = IF c.ok THEN r.log ELSE <<>>
                    /\ files' = c.files
    /\ calls' = <<"connectToDb", "getTableSchema", "closeDb">>
    /\ UNCHANGED <<tableInfo, rows>>
    /\ UNCHANGED connVars

FilesNext ==
    \/ UploadPost
    \/ TablesGet
    \/ ConnectToDatabaseAndListTables
    \/ ListTablesAction
    \/ BrowseTableAction
    \/ Respond

FilesInit ==
    /\ ConnIdle
    /\ ReqIdle
    /\ tableInfo \in {<<>>, NoPkInfo}
    /\ rows = <<>>
    /\ files = Files

SpecFiles == FilesInit /\ [][FilesNext]_vars

\* A call that resolves a database name has ended.
FileCallDone(kinds) == req.kind \in kinds /\ req.phase = "done" /\ "before" \in DOMAIN req

FileEntryPoints ==
    {"upload", "tablesGET", "connectToDatabaseAndListTables", "listTablesAction",
     "getTableInfoAndDataAction"}

\* C17: at every entry point a database name that holds a separator or '..' is
\* rejected before a connection is opened or a file is written, and the path
\* handed to connect or to the file write is a direct child of the database
\* directory of the entry point.
C17_NameNeverLeavesDirectory ==
    FileCallDone(FileEntryPoints) =>
        /\ HasSeparatorOrDotDot(req.name) => ~resp.ok /\ ~req.opened /\ ~req.wrote
        /\ (req.opened \/ req.wrote) =>
              DirectChild(DbsDir, req.path) \/ DirectChild(DbBaseDir, req.path)

\* C18: a browsing operation on a name whose file does not exist fails with a
\* not-found error and leaves the set of files as it was.
C18_BrowsingCreatesNoFile ==
    ( /\ FileCallDone(FileEntryPoints \ {"upload"})
      /\ req.path # <<>>
      /\ ~IsDirectory(req.path)
      /\ req.path \notin req.before )
        => /\ ~resp.ok
           /\ resp.error = ErrNotFound
           /\ files = req.before

(***************************************************************************)
(* The schema route beside another writer of the database file: the route  *)
(* opens the file twice, for the introspection and for the existence check.*)
(***************************************************************************)

\* The answer the route gives to what its two reads returned.
SchemaAnswer_AlwaysOk(schema, tableExists) == SchemaResp(200, schema, "")

\* GET lines 43-56: the answer to the schema read and, for an empty schema,
\* to the lookup in sqlite_master.
SchemaAnswer(schema, tableExists) ==
    IF schema = <<>> /\ ~tableExists
    THEN SchemaResp(404, <<>>, "Table not found.")
    ELSE SchemaResp(200, schema, "")

SchemaCall(dbName, tableName, phase, schema) ==
    [kind |-> "schemaGET", phase |-> phase, rawDbName |-> dbName,
     rawTableName |-> tableName, tableName |-> sanitizeName(tableName),
     schema |-> schema, tableAtAnswer |-> TableInfoOf(sanitizeName(tableName))]

\* GET lines 12-47: the checks of the names and of the file, then getTableSchema.
\* A schema with columns is answered at once.
SchemaIntrospect ==
    /\ req.phase = "none"
    /\ \E dbName \in {DbD, <<"x">>}, tableName \in {TableT, <<"u">>, <<"t", ";">>} :
         LET safeTableName == sanitizeName(tableName)
             schema        == getTableSchema(TableInfoOf(safeTableName))
             pragma        == [Stmt("PRAGMA", safeTableName, <<>>, <<>>, <<>>, <<>>)
                                 EXCEPT !.ran = TRUE]
         IN  IF Basename(dbName) # dbName
             THEN /\ req' = SchemaCall(dbName, tableName, "rejected", <<>>)
                  /\ resp' = SchemaResp(400, <<>>, "Invalid database name format.")
                  /\ calls' = <<>> /\ sqlLog' = <<>>
             ELSE IF safeTableName # tableName
             THEN /\ req' = SchemaCall(dbName, tableName, "rejected", <<>>)
                  /\ resp' = SchemaResp(400, <<>>, "Invalid table name format.")
                  /\ calls' = <<>> /\ sqlLog' = <<>>
             ELSE IF ~ExistsSync(dbName)
             THEN /\ req' = SchemaCall(dbName, tableName, "rejected", <<>>)
                  /\ resp' = SchemaResp(404, <<>>, "Database not found.")
                  /\ calls' = <<>> /\ sqlLog' = <<>>
             ELSE IF schema # <<>>
             THEN /\ req' = SchemaCall(dbName, tableName, "done", schema)
                  /\ resp' = SchemaAnswer(schema, TRUE)
                  /\ calls' = <<"getTableSchema">> /\ sqlLog' = <<pragma>>
             ELSE /\ req' = SchemaCall(dbName, tableName, "introspected", schema)
                  /\ resp' = NoResp
                  /\ calls' = <<"getTableSchema">> /\ sqlLog' = <<pragma>>
    /\ UNCHANGED tableVars
    /\ UNCHANGED connVars

\* GET lines 48-58: the schema was empty; the file is opened again and
\* sqlite_master is asked for the table.
SchemaCheck ==
    /\ req.kind = "schemaGET" /\ req.phase = "introspected"
    /\ LET tableExists == TableInfoOf(req.tableName) # <<>>
           tableCheck  == [Stmt("SELECT", SqliteMaster, <<>>, <<NameColumn>>, <<>>,
                                <<req.tableName>>) EXCEPT !.ran = TRUE]
       IN  /\ req' = [req EXCEPT !.phase = "done",
                                 !.tableAtAnswer = TableInfoOf(req.tableName)]
           /\ resp' = SchemaAnswer(req.schema, tableExists)
           /\ sqlLog' = Append(sqlLog, tableCheck)
    /\ UNCHANGED calls
    /\ UNCHANGED tableVars
    /\ UNCHANGED connVars

\* Another connection to the file commits CREATE TABLE t (...).
ConcurrentCreateTable ==
    /\ tableInfo = <<>>
    /\ req.phase \in {"none", "introspected", "resolved"}
    /\ tableInfo' \in TableInfos \ {<<>>}
    /\ UNCHANGED <<rows, files>>
    /\ UNCHANGED reqVars
    /\ UNCHANGED connVars

SchemaNext ==
    \/ SchemaIntrospect
    \/ SchemaCheck
    \/ ConcurrentCreateTable
    \/ Respond

SchemaInit == ConnIdle /\ TableInit /\ ReqIdle

SpecSchema == SchemaInit /\ [][SchemaNext]_vars

\* The schema route has answered a request whose names and file passed its checks.
SchemaAnswered ==
    /\ req.kind = "schemaGET"
    /\ req.phase = "done"
    /\ "tableAtAnswer" \in DOMAIN req

\* C19: the schema route answers 404 'table not found' exactly when the table
\* does not exist; for a table that exists and an introspection without columns
\* it answers 200 with an empty schema; a schema with columns is answered 200
\* with no lookup in sqlite_master.
C19_NotFoundIffTableMissing ==
    SchemaAnswered =>
        /\ (resp.status = 404 /\ resp.error = "Table not found.") <=> req.tableAtAnswer = <<>>
        /\ (req.tableAtAnswer # <<>> /\ req.schema = <<>>)
              => resp.status = 200 /\ resp.schema = <<>>
        /\ req.schema # <<>>
              => /\ resp.status = 200
                 /\ resp.schema = req.schema
                 /\ \A i \in 1..Len(sqlLog) : sqlLog[i].kind = "PRAGMA"

\* The table was created between the two reads: it exists, the schema read is empty.
C19_Witness ==
    /\ SchemaAnswered
    /\ req.tableAtAnswer # <<>>
    /\ req.schema = <<>>
    /\ resp.status = 200

(***************************************************************************)
(* createTableAction: the CREATE TABLE statement built from the column     *)
(* definitions.                                                            *)
(***************************************************************************)
MaxColumns == 2    \* column definitions of one createTableAction call

\* /^[a-zA-Z_][a-zA-Z0-9_]*$/.test(name)
IsIdentifier(name) ==
    /\ name # <<>>
    /\ \A i \in 1..Len(name) : name[i] \in WordChars
    /\ name[1] \notin {"0", "1", "2", "3", "4", "5", "6", "7", "8", "9"}

ColumnDefinition(name, type, primaryKey, notNull) ==
    [name |-> name, type |-> type, primaryKey |-> primaryKey, notNull |-> notNull]

\* One column definition of the statement: "name" TYPE [PRIMARY KEY] [NOT NULL]
ColumnDef(name, type, primaryKey, notNull) ==
    [name |-> name, type |-> type, primaryKey |-> primaryKey, notNull |-> notNull]

\* CREATE TABLE "table" (defs..., constraints...)
CreateStmt(table, defs, constraints) ==
    [kind |-> "CREATE", table |-> table, defs |-> defs, constraints |-> constraints,
     ran |-> FALSE]

\* lines 201-210: the definition of a column beside a composite key
CompositeDef(col) ==
    ColumnDef(QuoteIdent(col.name), ToUpperCase(col.type), FALSE,
              (col.notNull /\ ~col.primaryKey) \/ (col.primaryKey /\ col.notNull))

\* lines 182-191: the definition of a column with its own constraints
InlineDef(col) ==
    ColumnDef(QuoteIdent(col.name), ToUpperCase(col.type), col.primaryKey, col.notNull)

\* lines 182-214: createTableQuery
createTableQuery(tableName, columns) ==
    LET flagged == SelectSeq(columns, LAMBDA col : col.primaryKey)
        pkCount == Len(flagged)
    IN  IF pkCount > 1
        THEN CreateStmt(QuoteIdent(tableName),
                        [i \in 1..Len(columns) |-> CompositeDef(columns[i])],
                        << [i \in 1..pkCount |-> QuoteIdent(flagged[i].name)] >>)
        ELSE CreateStmt(QuoteIdent(tableName),
                        [i \in 1..Len(columns) |-> InlineDef(columns[i])], <<>>)

\* The table_info of the table the statement creates: pk is the position of
\* the column in the key.
CreatedInfo(st) ==
    LET key == IF st.constraints # <<>> THEN st.constraints[1]
               ELSE [i \in 1..Len(SelectSeq(st.defs, LAMBDA d : d.primaryKey)) |->
                        SelectSeq(st.defs, LAMBDA d : d.primaryKey)[i].name]
    IN  [i \in 1..Len(st.defs) |->
           [name |-> ResolveIdent(st.defs[i].name),
            pk   |-> IF \E j \in 1..Len(key) : key[j] = st.defs[i].name
                     THEN CHOOSE j \in 1..Len(key) : key[j] = st.defs[i].name
                     ELSE 0]]

\* The engine's answer to the statement: "" or its error.
CreateError(st) ==
    IF \E i, j \in 1..Len(st.defs) : i # j /\ st.defs[i].name = st.defs[j].name
    THEN "SQLITE_ERROR: duplicate column name"
    ELSE IF ResolveIdent(st.table) = TableT /\ tableInfo # <<>>
    THEN "SQLITE_ERROR: table already exists"
    ELSE ""

\* The column definitions of the model's calls; the type is any text the
\* caller sends.
ColumnDefinitions ==
    {ColumnDefinition(n, t, pk, nn) :
        n \in {ColA, ColB, <<"1">>}, t \in {"text"}, pk \in BOOLEAN, nn \in BOOLEAN}
    \cup {ColumnDefinition(ColA, "text default 1", FALSE, FALSE)}
ColumnLists == UNION {[1..n -> ColumnDefinitions] : n \in 0..MaxColumns}

\* createTableAction(encodedDbPath, tableName, columns) on the file d
CreateTableAction ==
    /\ req.phase = "none"
    /\ \E tableName \in {TableT, <<>>, <<"1", "t">>}, columns \in ColumnLists :
         LET call == [kind |-> "createTableAction", phase |-> "done",
                      tableName |-> tableName, columns |-> columns]
             Reject(e) == /\ req' = call
                          /\ resp' = [status |-> 0, success |-> FALSE, changes |-> 0,
                                      error |-> e]
                          /\ sqlLog' = <<>>
                          /\ calls' = <<>>
                          /\ UNCHANGED tableInfo
         IN  IF tableName = <<>> THEN Reject("Table name cannot be empty.")
             ELSE IF columns = <<>> THEN Reject("Table must have at least one column.")
             ELSE IF ~IsIdentifier(tableName) THEN Reject("Invalid table name.")
             ELSE IF \E i \in 1..Len(columns) : ~IsIdentifier(columns[i].name)
                 THEN Reject("Invalid column name.")
             ELSE \E st \in {createTableQuery(tableName, columns)} :
                    /\ req' = call
                    /\ resp' = [status |-> 0, success |-> CreateError(st) = "",
                                changes |-> 0, error |-> CreateError(st)]
                    /\ sqlLog' = << [st EXCEPT !.ran = (CreateError(st) = "")] >>
                    /\ calls' = <<"connectToDb", "runQuery", "closeDb">>
                    /\ tableInfo' = IF CreateError(st) = "" THEN CreatedInfo(st)
                                    ELSE tableInfo
    /\ UNCHANGED <<rows, files>>
    /\ UNCHANGED connVars

\* deleteTableAction(encodedDbPath, tableName) on the file d:
\* DROP TABLE IF EXISTS "tableName"
DeleteTableAction ==
    /\ req.phase = "none"
    /\ \E tableName \in {TableT, <<>>, <<"1", "t">>} :
         LET call == [kind |-> "deleteTableAction", phase |-> "done",
                      tableName |-> tableName]
             Reject(e) == /\ req' = call
                          /\ resp' = [status |-> 0, success |-> FALSE, changes |-> 0,
                                      error |-> e]
                          /\ calls' = <<>>
                          /\ UNCHANGED <<tableInfo, rows>>
         IN  IF tableName = <<>> THEN Reject("Table name cannot be empty for deletion.")
             ELSE IF ~IsIdentifier(tableName) THEN Reject("Invalid table name for deletion.")
             ELSE /\ req' = call
                  /\ resp' = [status |-> 0, success |-> TRUE, changes |-> 0, error |-> ""]
                  /\ calls' = <<"connectToDb", "runQuery", "closeDb">>
                  /\ tableInfo' = <<>>
                  /\ rows' = <<>>
    /\ sqlLog' = <<>>
    /\ UNCHANGED files
    /\ UNCHANGED connVars

\* tables/page.tsx line 56: the types the form of the tables page offers.
SQLITE_TYPES == {"TEXT", "INTEGER", "REAL", "BLOB", "NULL"}

CreateNext ==
    \/ CreateTableAction
    \/ DeleteTableAction
    \/ Respond

CreateInit == ConnIdle /\ TableIdle /\ ReqIdle

SpecCreate == CreateInit /\ [][CreateNext]_vars

\* The column definitions of the call that are flagged primary key, in order.
Flagged == SelectSeq(req.columns, LAMBDA col : col.primaryKey)

\* C20: with more than one column flagged primary key the statement has exactly
\* one trailing PRIMARY KEY clause that lists the flagged columns in definition
\* order, no column definition has an inline PRIMARY KEY, and every flagged
\* column is NOT NULL whatever its own flag; with at most one flagged column
\* PRIMARY KEY is inline on that column and there is no trailing clause.
C20_CompositeKeyClause ==
    (req.kind = "createTableAction" /\ req.phase = "done" /\ resp.success) =>
        LET st == sqlLog[1]
        IN  /\ Len(st.defs) = Len(req.columns)
            /\ IF Len(Flagged) > 1
               THEN /\ Len(st.constraints) = 1
                    /\ st.constraints[1] =
                          [i \in 1..Len(Flagged) |-> QuoteIdent(Flagged[i].name)]
                    /\ \A i \in 1..Len(st.defs) :
                          /\ ~st.defs[i].primaryKey
                          /\ req.columns[i].primaryKey => st.defs[i].notNull
               ELSE /\ st.constraints = <<>>
                    /\ \A i \in 1..Len(st.defs) :
                          st.defs[i].primaryKey = req.columns[i].primaryKey

(***************************************************************************)
(* getOverallStatsAction: the statistics of a list of database files.      *)
(***************************************************************************)
MaxNames == 2      \* database file names of one getOverallStatsAction call

\* !fileName || fileName.trim() === ''
IsBlank(fileName) == \A i \in 1..Len(fileName) : fileName[i] = " "

\* What fails while one database is processed: nothing, connectToDb,
\* listTables, getTableRowCount or closeDb.
Faults == {"none", "connect", "list", "count", "close"}

DatabaseInsight(fileName, tableCount, totalRows, tables, error) ==
    [path |-> fileName, fileName |-> fileName, tableCount |-> tableCount,
     totalRows |-> totalRows, tables |-> tables, error |-> error]

\* lines 62-68
NewStats(databaseFileNames) ==
    [totalDatabasesProcessed |-> Len(databaseFileNames),
     totalDatabasesSuccessfullyProcessed |-> 0,
     totalTables |-> 0, grandTotalRows |-> 0, databases |-> <<>>]

ErrCloseStats == "Failed to close database connection. Stats might be incomplete."
ErrCount      == "SQLITE_ERROR: count failed"

\* lines 70-140: one turn of the loop, on the file name and with the failure
\* the turn meets; the statistics after it.
ProcessDatabase(stats, fileName, fault) ==
    LET fullDbPath == PathJoin(DbBaseDir, fileName)
        tableNames == TablesOf(fullDbPath)
        Failed(e)  == [stats EXCEPT !.databases =
                          Append(@, DatabaseInsight(fileName, 0, 0, <<>>, e))]
    IN  IF fileName = <<>> \/ IsBlank(fileName) THEN Failed("File name is empty.")
        ELSE IF HasSeparatorOrDotDot(fileName) THEN Failed(ErrPath)
        ELSE IF fullDbPath \notin files THEN Failed(ErrNotFound)
        ELSE IF fault = "connect" THEN Failed(ErrOpen)
        ELSE IF fault = "list" THEN Failed(ErrPragma)
        ELSE IF fault = "count" /\ tableNames # <<>>
            THEN [stats EXCEPT
                    !.totalTables = @ + Len(tableNames),
                    !.databases = Append(@, DatabaseInsight(fileName, Len(tableNames), 0,
                                                            <<>>, ErrCount))]
        ELSE [stats EXCEPT
                !.totalTables = @ + Len(tableNames),
                !.grandTotalRows = @ + Len(tableNames) * Len(rows),
                !.totalDatabasesSuccessfullyProcessed = @ + 1,
                !.databases =
                    Append(@, DatabaseInsight(fileName, Len(tableNames),
                              Len(tableNames) * Len(rows),
                              [i \in 1..Len(tableNames) |->
                                  [name |-> tableNames[i], rowCount |-> Len(rows)]],
                              IF fault = "close" THEN ErrCloseStats ELSE ""))]

StatsNames == {DbD, <<"x">>, <<>>, <<".", ".", "/", "d">>}
StatsNameLists == UNION {[1..n -> StatsNames] : n \in 0..MaxNames}

\* lines 57-68: the call, with its list of names
StatsStart ==
    /\ req.phase = "none"
    /\ \E databaseFileNames \in StatsNameLists :
         IF databaseFileNames = <<>>
         THEN /\ req' = [kind |-> "getOverallStatsAction", phase |-> "done",
                         names |-> <<>>, faults |-> <<>>, stats |-> NewStats(<<>>)]
              /\ resp' = [status |-> 0, success |-> FALSE, changes |-> 0,
                          error |-> "No database file names provided."]
         ELSE /\ req' = [kind |-> "getOverallStatsAction", phase |-> "loop",
                         names |-> databaseFileNames, faults |-> <<>>,
                         stats |-> NewStats(databaseFileNames)]
              /\ resp' = NoResp
    /\ calls' = <<"getOverallStatsAction">>
    /\ UNCHANGED sqlLog
    /\ UNCHANGED tableVars
    /\ UNCHANGED connVars

\* lines 70-140: the next name of the list is processed
StatsDatabase ==
    /\ req.kind = "getOverallStatsAction" /\ req.phase = "loop"
    /\ Len(req.faults) < Len(req.names)
    /\ \E fault \in Faults :
         LET fileName == req.names[Len(req.faults) + 1]
             opened   == /\ fileName # <<>> /\ ~IsBlank(fileName)
                         /\ ~HasSeparatorOrDotDot(fileName)
                         /\ PathJoin(DbBaseDir, fileName) \in files
         IN  /\ opened \/ fault = "none"
             /\ fault = "count" => TablesOf(PathJoin(DbBaseDir, fileName)) # <<>>
             /\ req' = [req EXCEPT !.faults = Append(@, fault),
                                   !.stats = ProcessDatabase(@, fileName, fault)]
    /\ UNCHANGED <<resp, sqlLog, calls>>
    /\ UNCHANGED tableVars
    /\ UNCHANGED connVars

\* line 142
StatsReturn ==
    /\ req.kind = "getOverallStatsAction" /\ req.phase = "loop"
    /\ Len(req.faults) = Len(req.names)
    /\ req' = [req EXCEPT !.phase = "done"]
    /\ resp' = [status |-> 0, success |-> TRUE, changes |-> 0, error |-> ""]
    /\ UNCHANGED <<sqlLog, calls>>
    /\ UNCHANGED tableVars
    /\ UNCHANGED connVars

StatsNext ==
    \/ StatsStart
    \/ StatsDatabase
    \/ StatsReturn
    \/ Respond

StatsInit == ConnIdle /\ TableInit /\ ReqIdle

SpecStats == StatsInit /\ [][StatsNext]_vars

\* getOverallStatsAction has returned the statistics of a non-empty list.
StatsDone ==
    /\ req.kind = "getOverallStatsAction"
    /\ req.phase = "done"
    /\ req.names # <<>>

\* C21: a database whose statistics were gathered and whose close alone failed
\* is counted as successfully processed and its entry carries no error.
C21_CloseFailureOnlyLogged ==
    StatsDone =>
        \A i \in 1..Len(req.names) :
            req.faults[i] = "close" =>
                /\ req.stats.databases[i].error = ""
                /\ req.stats.totalDatabasesSuccessfullyProcessed >= 1

\* The sum of a field over the entries.
RECURSIVE SumField(_, _)
SumField(entries, field) ==
    IF entries = <<>> THEN 0
    ELSE entries[1][field] + SumField(Tail(entries), field)

\* The entries of the result that carry no error.
ErrorFree == SelectSeq(req.stats.databases, LAMBDA e : e.error = "")

\* One entry per name, in the order of the names.
EntryPerName ==
    /\ Len(req.stats.databases) = Len(req.names)
    /\ \A i \in 1..Len(req.names) : req.stats.databases[i].path = req.names[i]

\* C22: the result has one entry per name in input order, totalDatabasesProcessed
\* is the number of names, and the three totals are the count of, the sum of
\* tableCount over and the sum of totalRows over the entries without error.
C22_TotalsOverErrorFree ==
    StatsDone =>
        /\ EntryPerName
        /\ req.stats.totalDatabasesProcessed = Len(req.names)
        /\ req.stats.totalDatabasesSuccessfullyProcessed = Len(ErrorFree)
        /\ req.stats.totalTables = SumField(ErrorFree, "tableCount")
        /\ req.stats.grandTotalRows = SumField(ErrorFree, "totalRows")

(***************************************************************************)
(* The server actions that validate their input before they connect.       *)
(***************************************************************************)
ValidateNext ==
    \/ CreateTableAction
    \/ DeleteTableAction
    \/ UpdateRowAction
    \/ DeleteRowAction
    \/ Respond

ValidateInit == ConnIdle /\ TableInit /\ ReqIdle

SpecValidate == ValidateInit /\ [][ValidateNext]_vars

\* The call that has returned was given input that its action's validation
\* refuses.
ValidationFailure ==
    /\ req.phase = "done"
    /\ \/ /\ req.kind = "createTableAction"
          /\ \/ req.tableName = <<>> \/ ~IsIdentifier(req.tableName)
             \/ req.columns = <<>>
             \/ \E i \in 1..Len(req.columns) : ~IsIdentifier(req.columns[i].name)
       \/ /\ req.kind = "deleteTableAction"
          /\ (req.tableName = <<>> \/ ~IsIdentifier(req.tableName))
       \/ /\ req.kind = "updateRowAction"
          /\ (req.data.v = <<>> \/ req.data.criteria = <<>>)
       \/ /\ req.kind = "deleteRowAction"
          /\ req.data.criteria = <<>>

\* Whether the call that has returned opened a connection.
ConnectionOpened ==
    IF "opened" \in DOMAIN resp THEN resp.opened
    ELSE \E i \in 1..Len(calls) : calls[i] = "connectToDb"

C24_PageAndLimitPositive ==
    (req.kind = "dataGET" /\ req.phase = "done" /\ sqlLog # <<>>)
        => /\ req.options.page # NaN /\ req.options.page >= 1
           /\ req.options.limit # NaN /\ req.options.limit >= 1
           /\ \A i \in 1..Len(sqlLog) :
                 sqlLog[i].tail = "LIMIT ? OFFSET ?"
                    => sqlLog[i].params[Len(sqlLog[i].params)] >= 0
           /\ resp.ok => resp.totalPages # NaN /\ resp.totalPages >= 0

(***************************************************************************)
(* The row route beside other writers of the database file: the route      *)
(* resolves the key column on one handle and runs its statement on another.*)
(***************************************************************************)

\* Another connection commits DROP TABLE t while the request is between its
\* key resolution and its statement.
ConcurrentDropTable ==
    /\ req.phase = "resolved"
    /\ tableInfo # <<>>
    /\ tableInfo' = <<>>
    /\ rows' = <<>>
    /\ UNCHANGED files
    /\ UNCHANGED reqVars
    /\ UNCHANGED connVars

\* Another connection commits an INSERT into t in the same window.
ConcurrentInsert ==
    /\ req.phase \in {"resolved", "counted", "fetched"}
    /\ tableInfo # <<>>
    /\ Len(rows) < MaxRows
    /\ \E r \in [Cols -> Vals] :
         /\ PkUnique(tableInfo, Append(rows, r))
         /\ rows' = Append(rows, r)
    /\ UNCHANGED <<tableInfo, files>>
    /\ UNCHANGED reqVars
    /\ UNCHANGED connVars

RaceNext ==
    \/ PutResolve
    \/ PutExecute
    \/ PutBadJson
    \/ DeleteResolve
    \/ DeleteExecute
    \/ ConcurrentDropTable
    \/ ConcurrentCreateTable
    \/ ConcurrentInsert
    \/ Respond

RaceInit == ConnIdle /\ TableInit /\ ReqIdle

SpecRace == RaceInit /\ [][RaceNext]_vars

\* The request has ended and the key column it resolved is not the single
\* primary-key column the table has now.
StaleKeyColumn ==
    /\ req.kind \in {"PUT", "DELETE"}
    /\ req.phase = "done"
    /\ req.idColumn # Null
    /\ req.idColumn # getPrimaryKeyColumn(TableInfoOf(req.tableName))

\* C25: a PUT or DELETE whose table was dropped, or dropped and recreated with
\* another primary key, between the key resolution and the statement ends with
\* an error response, and its statement is not run by the engine.
C25_StaleKeyNeverApplied ==
    StaleKeyColumn
        => /\ resp.status >= 400
           /\ \A i \in 1..Len(sqlLog) :
                 sqlLog[i].kind \in {"UPDATE", "DELETE"} => ~sqlLog[i].ran

(***************************************************************************)
(* A page fetch statement by statement: fetchTableData runs its count      *)
(* statement and then its data statement, getTableInfoAndDataAction its    *)
(* data statement and then its count statement, each statement on its own  *)
(* in autocommit mode, while other connections write to the same table.    *)
(***************************************************************************)
PageNumbers == 1..2
PageLimits  == 1..2

PageReq(kind, phase, page, limit, data, totalRows) ==
    [kind |-> kind, phase |-> phase, page |-> page, limit |-> limit,
     data |-> data, totalRows |-> totalRows]

PageResult(ok, data, totalRows, error) ==
    [ok |-> ok, data |-> data, totalRows |-> totalRows, error |-> error]

\* lib/db.ts lines 104-131: the count statement is prepared and run.
FetchCount ==
    /\ req.phase = "none"
    /\ \E page \in PageNumbers, limit \in PageLimits :
         LET countStmt == FilteredStmt("COUNT", TableT, <<>>)
             rc        == ExecSelect(tableInfo, rows, countStmt)
         IN  /\ sqlLog' = << Logged(countStmt, rc) >>
             /\ calls' = <<"fetchTableData">>
             /\ IF rc.ok
                THEN /\ req' = PageReq("fetchTableData", "counted", page, limit,
                                       <<>>, Len(rc.rows))
                     /\ resp' = NoResp
                ELSE /\ req' = PageReq("fetchTableData", "done", page, limit, <<>>, 0)
                     /\ resp' = PageResult(FALSE, <<>>, 0, rc.error)
    /\ UNCHANGED tableVars
    /\ UNCHANGED connVars

\* lib/db.ts lines 133-153: the data statement is prepared and run; the value
\* returned holds its rows and the count taken before.
FetchData ==
    /\ req.kind = "fetchTableData" /\ req.phase = "counted"
    /\ LET dataStmt == DataStmt(TableT, Options(req.page, req.limit, <<>>, "", <<>>))
           rd       == ExecSelect(tableInfo, rows, dataStmt)
       IN  /\ sqlLog' = Append(sqlLog, Logged(dataStmt, rd))
           /\ req' = [req EXCEPT !.phase = "done", !.data = rd.rows]
           /\ resp' = IF rd.ok THEN PageResult(TRUE, rd.rows, req.totalRows, "")
                      ELSE PageResult(FALSE, <<>>, 0, rd.error)
    /\ UNCHANGED calls
    /\ UNCHANGED tableVars
    /\ UNCHANGED connVars

\* getTableInfoAndDataAction lines 66-92: the schema is read and the data
\* statement awaited.
ActionData ==
    /\ req.phase = "none"
    /\ \E page \in PageNumbers, pageSize \in PageLimits :
         LET pragma   == Stmt("PRAGMA", TableT, <<>>, <<>>, <<>>, <<>>)
             rs       == PragmaTableInfo(TableT)
             dataStmt == [Stmt("SELECT", QuoteIdent(TableT), <<>>, <<>>, <<>>,
                               <<pageSize, Offset(page, pageSize)>>)
                             EXCEPT !.tail = "LIMIT ? OFFSET ?"]
             rd       == ExecSelect(tableInfo, rows, dataStmt)
         IN  /\ calls' = <<"connectToDb", "getTableSchemaDb">>
             /\ IF rs.rows = <<>>
                THEN /\ sqlLog' = << Logged(pragma, rs) >>
                     /\ req' = PageReq("getTableInfoAndDataAction", "done", page,
                                       pageSize, <<>>, 0)
                     /\ resp' = PageResult(FALSE, <<>>, 0,
                                           "Table not found or has no columns.")
                ELSE /\ sqlLog' = << Logged(pragma, rs), Logged(dataStmt, rd) >>
                     /\ req' = PageReq("getTableInfoAndDataAction", "fetched", page,
                                       pageSize, rd.rows, 0)
                     /\ resp' = NoResp
    /\ UNCHANGED tableVars
    /\ UNCHANGED connVars

\* getTableInfoAndDataAction lines 94-98: the count statement awaited, and the
\* value returned.
ActionCount ==
    /\ req.kind = "getTableInfoAndDataAction" /\ req.phase = "fetched"
    /\ LET countStmt == Stmt("COUNT", QuoteIdent(TableT), <<>>, <<>>, <<>>, <<>>)
           rc        == ExecSelect(tableInfo, rows, countStmt)
       IN  /\ sqlLog' = Append(sqlLog, Logged(countStmt, rc))
           /\ req' = [req EXCEPT !.phase = "done", !.totalRows = Len(rc.rows)]
           /\ resp' = IF rc.ok THEN PageResult(TRUE, req.data, Len(rc.rows), "")
                      ELSE PageResult(FALSE, <<>>, 0, rc.error)
    /\ calls' = Append(calls, "closeDb")
    /\ UNCHANGED tableVars
    /\ UNCHANGED connVars

\* Another connection deletes a row between the two statements of a fetch.
ConcurrentDeleteRow ==
    /\ req.phase \in {"counted", "fetched"}
    /\ \E i \in 1..Len(rows) :
         rows' = SubSeq(rows, 1, i - 1) \o SubSeq(rows, i + 1, Len(rows))
    /\ UNCHANGED <<tableInfo, files>>
    /\ UNCHANGED reqVars
    /\ UNCHANGED connVars

PageNext ==
    \/ FetchCount
    \/ FetchData
    \/ ActionData
    \/ ActionCount
    \/ ConcurrentInsert
    \/ ConcurrentDeleteRow
    \/ Respond

PageInit == ConnIdle /\ TableInit /\ ReqIdle

SpecPage == PageInit /\ [][PageNext]_vars

\* C27: a page fetch that returns a value returns at most totalRows rows and
\* at most limit rows, whatever other connections wrote between its count
\* statement and its data statement.
C27_PageWithinTotal ==
    (/\ req.kind \in {"fetchTableData", "getTableInfoAndDataAction"}
     /\ req.phase = "done"
     /\ resp.ok)
        => /\ Len(resp.data) <= resp.totalRows
           /\ Len(resp.data) <= req.limit

(***************************************************************************)
(* The table data page (TableDataPage): its current page, sort and shown   *)
(* rows, the server actions it calls, and the refresh after each of them.  *)
(***************************************************************************)
MaxViewRows == 11   \* rows the table of the page may hold
PageSize    == 10   \* useState(10)

DecimalDigits == <<"0", "1", "2", "3", "4", "5", "6", "7", "8", "9">>

\* The decimal text of a key number below 100.
KeyText(i) ==
    IF i < 10 THEN << DecimalDigits[i + 1] >>
    ELSE << DecimalDigits[(i \div 10) + 1], DecimalDigits[(i % 10) + 1] >>

ViewInfo == << [name |-> ColA, pk |-> 0], [name |-> ColB, pk |-> 1] >>

ViewRow(i) == (ColA :> (IF i % 2 = 1 THEN <<"1">> ELSE <<"2">>)) @@ (ColB :> KeyText(i))

\* schema.filter(col => col.pk > 0).map(col => col.name)
PrimaryKeyColumns(schema) ==
    LET keys == SelectSeq(schema, LAMBDA col : col.pk > 0)
    IN  [i \in 1..Len(keys) |-> keys[i].name]

\* The component mounts: the state of lines 84-94, and the effect of line 151
\* has a fetch to run.
ViewMount ==
    /\ req.phase = "none"
    /\ req' = [kind |-> "TableDataPage", phase |-> "loading", currentPage |-> 1,
               pageSize |-> PageSize, sortBy |-> <<>>, sortDirection |-> "ASC",
               totalRows |-> 0, dataRows |-> <<>>, primaryKeyColumns |-> <<>>,
               error |-> ""]
    /\ resp' = NoResp
    /\ sqlLog' = <<>>
    /\ calls' = <<>>
    /\ UNCHANGED tableVars
    /\ UNCHANGED connVars

\* fetchData, lines 109-149: the page is asked for with the current page and
\* sort, and the answer becomes the page state.
FetchDataView ==
    /\ req.kind = "TableDataPage" /\ req.phase = "loading"
    /\ \E answer \in {getTableInfoAndDataAction(TableT, req.currentPage, req.pageSize,
                                                req.sortBy, req.sortDirection)} :
         /\ req' = IF answer.ok
                   THEN [req EXCEPT !.phase = "shown", !.dataRows = answer.data,
                                    !.totalRows = answer.totalRows,
                                    !.primaryKeyColumns = PrimaryKeyColumns(tableInfo),
                                    !.error = ""]
                   ELSE [req EXCEPT !.phase = "shown", !.dataRows = <<>>,
                                    !.totalRows = 0, !.error = answer.error]
         /\ sqlLog' = answer.log
    /\ calls' = <<"getTableInfoAndDataAction">>
    /\ UNCHANGED resp
    /\ UNCHANGED tableVars
    /\ UNCHANGED connVars

\* handlePageChange, lines 289-294; the effect refetches when the page changed.
HandlePageChange ==
    /\ req.kind = "TableDataPage" /\ req.phase = "shown"
    /\ \E newPage \in 0..(CeilDiv(MaxViewRows, PageSize) + 1) :
         req' = IF newPage >= 1 /\ newPage <= CeilDiv(req.totalRows, req.pageSize)
                   /\ newPage # req.currentPage
                THEN [req EXCEPT !.currentPage = newPage, !.phase = "loading"]
                ELSE req
    /\ UNCHANGED <<resp, sqlLog, calls>>
    /\ UNCHANGED tableVars
    /\ UNCHANGED connVars

\* handleSort, lines 155-164; the effect refetches.
HandleSort ==
    /\ req.kind = "TableDataPage" /\ req.phase = "shown"
    /\ \E columnName \in {ColA} :
         req' = IF req.sortBy = columnName
                THEN [req EXCEPT !.sortDirection = IF @ = "ASC" THEN "DESC" ELSE "ASC",
                                 !.currentPage = 1, !.phase = "loading"]
                ELSE [req EXCEPT !.sortBy = columnName, !.sortDirection = "ASC",
                                 !.currentPage = 1, !.phase = "loading"]
    /\ UNCHANGED <<resp, sqlLog, calls>>
    /\ UNCHANGED tableVars
    /\ UNCHANGED connVars

\* The key numbers a new row is given: the one after the last row's, or the
\* last row's own, which the engine refuses.
NewKeys ==
    {k \in 1..MaxViewRows :
        \/ rows = <<>> /\ k = 1
        \/ rows # <<>> /\ KeyText(k) = rows[Len(rows)][ColB]
        \/ rows # <<>> /\ k > 1 /\ KeyText(k - 1) = rows[Len(rows)][ColB]}

\* handleAddRowSubmit, lines 238-254: the row is inserted and, on success, the
\* data fetched again.
HandleAddRowSubmit ==
    /\ req.kind = "TableDataPage" /\ req.phase = "shown"
    /\ \E k \in NewKeys :
       \E answer \in {insertRowAction(tableInfo, rows, TableT,
                        << [k |-> ColA, v |-> ViewRow(k)[ColA]],
                           [k |-> ColB, v |-> KeyText(k)] >>)} :
         /\ rows' = answer.rows
         /\ sqlLog' = answer.log
         /\ req' = IF answer.success THEN [req EXCEPT !.phase = "loading"]
                   ELSE [req EXCEPT !.error = answer.error]
    /\ calls' = <<"insertRowAction">>
    /\ UNCHANGED resp
    /\ UNCHANGED <<tableInfo, files>>
    /\ UNCHANGED connVars

\* openDeleteConfirmation and handleDeleteRowConfirm, lines 257-286: a shown
\* row is deleted by its key values and, on success, the data fetched again.
HandleDeleteRowConfirm ==
    /\ req.kind = "TableDataPage" /\ req.phase = "shown"
    /\ req.primaryKeyColumns # <<>>
    /\ \E i \in 1..Len(req.dataRows) :
       \E answer \in {deleteRowAction(tableInfo, rows, TableT,
                        [j \in 1..Len(req.primaryKeyColumns) |->
                            [k |-> req.primaryKeyColumns[j],
                             v |-> req.dataRows[i][req.primaryKeyColumns[j]]]])} :
         /\ rows' = answer.rows
         /\ sqlLog' = answer.log
         /\ req' = IF answer.success THEN [req EXCEPT !.phase = "loading"]
                   ELSE [req EXCEPT !.error = answer.error]
    /\ calls' = <<"deleteRowAction">>
    /\ UNCHANGED resp
    /\ UNCHANGED <<tableInfo, files>>
    /\ UNCHANGED connVars

ViewNext ==
    \/ ViewMount
    \/ FetchDataView
    \/ HandlePageChange
    \/ HandleSort
    \/ HandleAddRowSubmit
    \/ HandleDeleteRowConfirm

ViewInit ==
    /\ ConnIdle
    /\ ReqIdle
    /\ tableInfo = ViewInfo
    /\ rows \in {[i \in 1..n |-> ViewRow(i)] : n \in 0..MaxViewRows}
    /\ files = Files

SpecView == ViewInit /\ [][ViewNext]_vars

\* C28: whenever the table data page shows the answer of its refresh, its
\* current page lies within 1 .. max(1, ceil(totalRows / pageSize)).
C28_CurrentPageWithinRange ==
    (req.kind = "TableDataPage" /\ req.phase = "shown")
        => /\ req.currentPage >= 1
           /\ req.currentPage <= (IF CeilDiv(req.totalRows, req.pageSize) > 1
                                  THEN CeilDiv(req.totalRows, req.pageSize) ELSE 1)

(***************************************************************************)
(* The Home page: its current page, sort and search, the data requests it  *)
(* has in flight, and what it does with each response, in whatever order   *)
(* the responses come.                                                     *)
(***************************************************************************)
MaxClicks == 2    \* page, sort and search selections of the user
HomeLimit == 10   \* useState(10)

SearchTerms == {<<>>, <<"a", ":", "1">>}

\* lines 95-101: "column:value" becomes the filter of that column; a term
\* without ':' adds no filter.
SearchFilters(term) ==
    IF \E i \in 1..Len(term) : term[i] = ":"
    THEN LET i     == CHOOSE j \in 1..Len(term) :
                         term[j] = ":" /\ \A k \in 1..(j - 1) : term[k] # ":"
             key   == SubSeq(term, 1, i - 1)
             value == SubSeq(term, i + 1, Len(term))
         IN  IF key # <<>> /\ value # <<>> THEN << [k |-> key, v |-> value] >>
             ELSE <<>>
    ELSE <<>>

\* The request fetchDataForTable sends: the arguments it was called with.
HomeRequest(page, sortBy, sortOrder, searchTerm) ==
    [page |-> page, sortBy |-> sortBy, sortOrder |-> sortOrder,
     searchTerm |-> searchTerm]

\* The tables of the Home page.
HomeTables == {[i \in 1..n |-> ViewRow(i)] : n \in 0..MaxViewRows}

\* The requests the Home page can send for them.
HomeRequests ==
    [page : 1..CeilDiv(MaxViewRows, HomeLimit), sortBy : {<<>>, ColA},
     sortOrder : {"", "ASC", "DESC"}, searchTerm : SearchTerms]

\* What the data route answers to each request on each table.
HomeAnswers ==
    {[table |-> t, request |-> r,
      answer |-> fetchTableData(ViewInfo, t, TableT,
                                Options(r.page, HomeLimit, r.sortBy, r.sortOrder,
                                        SearchFilters(r.searchTerm)))] :
        t \in HomeTables, r \in HomeRequests}

\* What the data route answers to a request, the table being as it is.
HomeAnswer(r) ==
    (CHOOSE a \in HomeAnswers : a.table = rows /\ a.request = r).answer

\* The effect of lines 307-311 after a render: it calls fetchDataForTable
\* when one of its dependencies is not what it was at the render before.
AfterRender(old, new) ==
    IF <<old.currentPage, old.sortBy, old.sortOrder, old.searchTerm>>
           # <<new.currentPage, new.sortBy, new.sortOrder, new.searchTerm>>
    THEN [new EXCEPT !.inflight = Append(@, HomeRequest(new.currentPage, new.sortBy,
                                                       new.sortOrder, new.searchTerm))]
    ELSE new

\* The user's last selection: what the page is meant to show.
Selection(st) == HomeRequest(st.currentPage, st.sortBy, st.sortOrder, st.searchTerm)

\* handleTableSelect, lines 166-194, and the effect: the table is selected,
\* and its first page asked for by the effect and by the handler itself.
HandleTableSelect ==
    /\ req.phase = "none"
    /\ req' = [kind |-> "Home", phase |-> "selected", currentPage |-> 1,
               sortBy |-> <<>>, sortOrder |-> "", searchTerm |-> <<>>,
               tableData |-> <<>>, totalRows |-> 0,
               inflight |-> << HomeRequest(1, <<>>, "", <<>>),
                               HomeRequest(1, <<>>, "", <<>>) >>,
               selected |-> HomeRequest(1, <<>>, "", <<>>),
               clicks |-> 0, stopped |-> FALSE]
    /\ resp' = NoResp
    /\ sqlLog' = <<>>
    /\ calls' = <<>>
    /\ UNCHANGED tableVars
    /\ UNCHANGED connVars

\* A user's selection st of the page state, and the effect after it.
HomeSelect(st) ==
    req' = AfterRender(req, [st EXCEPT !.clicks = @ + 1, !.selected = Selection(st)])

HomeUser ==
    /\ req.kind = "Home" /\ ~req.stopped /\ req.clicks < MaxClicks

\* data-table.tsx lines 81-85 and handlePageChange, lines 199-201
HomePageChange ==
    /\ HomeUser
    /\ \E newPage \in 1..CeilDiv(req.totalRows, HomeLimit) :
         HomeSelect([req EXCEPT !.currentPage = newPage])
    /\ UNCHANGED <<resp, sqlLog, calls>>
    /\ UNCHANGED tableVars
    /\ UNCHANGED connVars

\* handleSortChange, lines 203-211
HomeSortChange ==
    /\ HomeUser
    /\ \E columnName \in {ColA} :
         HomeSelect(IF req.sortBy = columnName
                    THEN [req EXCEPT !.sortOrder = IF @ = "ASC" THEN "DESC" ELSE "ASC",
                                     !.currentPage = 1]
                    ELSE [req EXCEPT !.sortBy = columnName, !.sortOrder = "ASC",
                                     !.currentPage = 1])
    /\ UNCHANGED <<resp, sqlLog, calls>>
    /\ UNCHANGED tableVars
    /\ UNCHANGED connVars

\* handleSearchChange, lines 213-216
HomeSearchChange ==
    /\ HomeUser
    /\ \E newSearchTerm \in SearchTerms :
         HomeSelect([req EXCEPT !.searchTerm = newSearchTerm, !.currentPage = 1])
    /\ UNCHANGED <<resp, sqlLog, calls>>
    /\ UNCHANGED tableVars
    /\ UNCHANGED connVars

\* The user stops interacting.
HomeStop ==
    /\ req.kind = "Home" /\ ~req.stopped
    /\ req' = [req EXCEPT !.stopped = TRUE]
    /\ UNCHANGED <<resp, sqlLog, calls>>
    /\ UNCHANGED tableVars
    /\ UNCHANGED connVars

\* fetchDataForTable lines 110-129: the response of one of the requests in
\* flight arrives, whichever; its rows, total and page become the state, and
\* the effect runs after the render.
HomeResponse ==
    /\ req.kind = "Home"
    /\ \E i \in 1..Len(req.inflight) :
       \E answer \in {HomeAnswer(req.inflight[i])} :
         LET rest == SubSeq(req.inflight, 1, i - 1)
                        \o SubSeq(req.inflight, i + 1, Len(req.inflight))
         IN  /\ req' = IF answer.ok
                       THEN AfterRender(req,
                                [req EXCEPT !.inflight = rest,
                                            !.tableData = answer.data,
                                            !.totalRows = answer.totalRows,
                                            !.currentPage = req.inflight[i].page])
                       ELSE [req EXCEPT !.inflight = rest, !.tableData = <<>>,
                                        !.totalRows = 0]
             /\ sqlLog' = answer.log
    /\ calls' = <<"fetchTableData">>
    /\ UNCHANGED resp
    /\ UNCHANGED tableVars
    /\ UNCHANGED connVars

HomeNext ==
    \/ HandleTableSelect
    \/ HomePageChange
    \/ HomeSortChange
    \/ HomeSearchChange
    \/ HomeStop
    \/ HomeResponse

HomeInit ==
    /\ ConnIdle
    /\ ReqIdle
    /\ tableInfo = ViewInfo
    /\ rows \in HomeTables
    /\ files = Files

SpecHome == HomeInit /\ [][HomeNext]_vars

\* Every response that was asked for arrives in the end.
SpecHomeLive == SpecHome /\ WF_vars(HomeResponse)

HomeStopped == req.kind = "Home" /\ req.stopped

\* No request is in flight, and the page and rows shown are those of the
\* user's last selection.
HomeSettled ==
    /\ req.kind = "Home"
    /\ req.inflight = <<>>
    /\ req.currentPage = req.selected.page
    /\ req.tableData = HomeAnswer(req.selected).data

\* C29: once the user has stopped interacting, the Home page comes to rest
\* with no request in flight, showing the page and rows of the last
\* selection, whatever order the responses arrive in.
C29_SettlesOnLastSelection == HomeStopped ~> HomeSettled

\* C30: the CREATE TABLE statement of createTableAction holds, of what the
\* caller sent, only a table name and column names that pass the identifier
\* check and column types that are one of the fixed type keywords.
C30_OnlyNamesAndTypeKeywords ==
    req.kind = "createTableAction"
        => \A i \in 1..Len(sqlLog) :
              sqlLog[i].kind = "CREATE"
                  => /\ IsIdentifier(ResolveIdent(sqlLog[i].table))
                     /\ \A j \in 1..Len(sqlLog[i].defs) :
                           /\ IsIdentifier(ResolveIdent(sqlLog[i].defs[j].name))
                           /\ sqlLog[i].defs[j].type \in SQLITE_TYPES

====
